---- MODULE Spec2Model ----
(***************************************************************************)
(* Model of casni's task-execution core.                                   *)
(*                                                                         *)
(*  - api/executor.py: Task, Output, Terminator and the dispatcher NIPexec *)
(*    (a thread that owns an asyncio loop, a queue, a worker pool and a    *)
(*    history of Outputs).                                                 *)
(*  - api/swarm.py: Container (a remote unit that owns one dispatcher) and *)
(*    Manager (create_service / remove_service / outputs).                 *)
(*                                                                         *)
(* A dispatcher is a record, and every step of its threads is an operator  *)
(* from a record to the record after the step, so that the same            *)
(* definitions drive the single dispatcher of Spec and the dispatchers     *)
(* owned by the Manager's containers.                                      *)
(*                                                                         *)
(* The asyncio.Queue is bound to the loop at its first use (Python 3.10    *)
(* and later), which is the loop of the dispatcher's own thread.           *)
(***************************************************************************)
EXTENDS Integers, Sequences, FiniteSets, TLC

VARIABLES
    nip,        \* the dispatcher of Spec: a NIPexec record
    callers,    \* caller -> the items its running submit() has still to put
    stopPc,     \* where the caller of stop() stands inside stop()
    stopDone,   \* number of stop() calls that have returned
    lateSub,    \* number of puts issued by submit() after the thread died
    clearPc,    \* where the caller of clear() stands inside clear()
    mgr,        \* the Manager: its fields and where its thread stands
    plat,       \* the cluster platform the Manager talks to
    submitted,  \* the commands handed to Container.submit, by unit and put
    ran,        \* the commands whose Task function was called, in call order
    aio         \* the asyncio loop of the Manager's user, where wait() runs

dispVars == <<nip, callers, stopPc, stopDone, lateSub, clearPc>>
mgrVars == <<mgr, plat, submitted, ran, aio>>
vars ==
    <<nip, callers, stopPc, stopDone, lateSub, clearPc, mgr, plat, submitted,
      ran, aio>>

\* ---- bounds of the model ------------------------------------------------
MaxPuts == 3
MaxStops == 2
MaxWorkers == 2     \* largest replica count given to Manager(n_workers=...)
MaxCreates == 2     \* services the Manager creates
MaxCmds == 2        \* commands handed to Container.submit
MaxProc == 1        \* changes of the process list of a container
MaxTicks == 2       \* steps of the coroutine that runs beside wait()
MaxImages == 2      \* images a node holds

Callers == {"c1", "c2"}

\* ---- Work unit model (executor.py: Task, Output, Terminator) ------------

\* A queue element.  kind "task" is a Task instance (fn: "async" for a
\* coroutine function, "sync" for a plain callable, "none" for neither),
\* kind "str" a string (val), kind "terminator" a Terminator instance.
\* id is the number of the put that carried the element (0: not yet put);
\* unit is the Container among the Task's args (<<0, 0>>: none).
Task(fn, raises) ==
    [kind |-> "task", val |-> "", fn |-> fn, raises |-> raises, id |-> 0,
     unit |-> <<0, 0>>]

Str(s) ==
    [kind |-> "str", val |-> s, fn |-> "none", raises |-> FALSE, id |-> 0,
     unit |-> <<0, 0>>]

Terminator ==
    [kind |-> "terminator", val |-> "", fn |-> "none", raises |-> FALSE, id |-> 0,
     unit |-> <<0, 0>>]

NoItem ==
    [kind |-> "none", val |-> "", fn |-> "none", raises |-> FALSE, id |-> 0,
     unit |-> <<0, 0>>]

Output(task, returned) == [task |-> task, returned |-> returned]

\* The local variable `future` of _event_loop before its first assignment.
Unbound == <<"unbound", 0>>

\* What awaiting the Task's function yields when it does not raise.
Returned(task) == <<"ret", task.id>>

\* The error a raising Task's function raises.
Raised(task) == <<"exc", task.id>>

\* isinstance(task, str) and task == "stop"
IsStop(item) == item.kind = "str" /\ item.val = "stop"

\* isinstance(task, Task)
IsTask(item) == item.kind = "task"

\* is_list_of_tasks(lst), for an argument that is a list
is_list_of_tasks(elems) == \A i \in 1..Len(elems) : IsTask(elems[i])

\* ---- NIPexec -------------------------------------------------------------

\* NIPexec.__init__: the pool, the queue, the history, the loop, and
\* start(): the thread is alive, its loop is not yet running.
\*   thread: "started" | "running" | "stopping" | "dead"
\*   cause:  "none" | "stop" (the loop broke on the sentinel)
\*                  | "error" (an exception left _event_loop)
\*   pc:     "get" (awaiting queue.get) | "exec" (awaiting cur's future)
\*           | "done"
\*   ready:  the callbacks call_soon_threadsafe has handed to the loop, each
\*           the put of one item
\*   pool, max_workers, workers: the ThreadPoolExecutor: "open" or
\*           "shutdown", its _max_workers (4 from __init__'s default) and
\*           the worker threads it has started (it starts one when work
\*           is handed to it, none of its threads is idle and there are
\*           fewer than _max_workers)
\*   nput, enq, invoked record what happened: the puts issued, every item
\*           that reached the queue, the ids of the Tasks whose function was
\*           called.
NIPexec ==
    [thread |-> "started", cause |-> "none", pc |-> "get", cur |-> NoItem,
     ready |-> <<>>, queue |-> <<>>, history |-> <<>>, future |-> Unbound,
     pool |-> "open", max_workers |-> 4, workers |-> 0,
     nput |-> 0, enq |-> <<>>, invoked |-> <<>>]

\* loop.is_running()
IsRunning(d) == d.thread \in {"running", "stopping"}

\* Thread.is_alive()
IsAlive(d) == d.thread # "dead"

\* ExecPut with a hand-over that is not thread-safe: a put that finds another
\* one still waiting overwrites it.
ExecPutUnsafe(d, item) ==
    [d EXCEPT !.ready = <<[item EXCEPT !.id = d.nput + 1]>>,
              !.nput = @ + 1]

\* _exec_coroutine(self._queue.put(item)): run_coroutine_threadsafe hands
\* the put to the loop and returns; nothing is raised, the loop is never
\* closed.
ExecPut(d, item) ==
    [d EXCEPT !.ready = Append(@, [item EXCEPT !.id = d.nput + 1]),
              !.nput = @ + 1]

\* run(): run_until_complete starts the loop.
RunLoop(d) == [d EXCEPT !.thread = "running"]

\* RunCallback with a queue that hands out the newest item first.
RunCallbackFront(d) ==
    [d EXCEPT !.ready = Tail(@),
              !.queue = <<Head(d.ready)>> \o @,
              !.enq = Append(@, Head(d.ready))]

\* The loop runs the next callback: the put lands on the queue.
RunCallback(d) ==
    [d EXCEPT !.ready = Tail(@),
              !.queue = Append(@, Head(d.ready)),
              !.enq = Append(@, Head(d.ready))]

\* An exception leaves _event_loop: run_until_complete stops the loop
\* and re-raises, and the thread ends.
Crash(d) == [d EXCEPT !.thread = "stopping", !.cause = "error", !.pc = "done"]

\* self.history.append(Output(task=task, returned=future)), which follows
\* the if/elif/else for every item that did not break the loop; reading
\* the unassigned local raises UnboundLocalError.
AppendOutput(d, item) ==
    IF d.future = Unbound
    THEN Crash(d)
    ELSE [d EXCEPT !.history = Append(@, Output(item, d.future)), !.pc = "get"]

\* The body of the while loop for an item that is not the sentinel: a Task
\* is called (a coroutine function on the loop, a plain callable in the
\* pool) and awaited; anything else is reported as invalid; then the
\* append.
DispatchItem(d, item) ==
    IF IsTask(item) /\ item.fn = "async"
    THEN [d EXCEPT !.pc = "exec", !.cur = item,
                   !.invoked = Append(@, item.id)]
    ELSE IF IsTask(item) /\ item.fn = "sync"
    THEN IF d.pool = "open"
         THEN [d EXCEPT !.pc = "exec", !.cur = item,
                        !.workers = IF @ < 1 /\ @ < d.max_workers
                                    THEN 1 ELSE @,
                        !.invoked = Append(@, item.id)]
         ELSE Crash(d)  \* cannot schedule new futures after shutdown
    ELSE AppendOutput(d, item)

\* Dispatch with a sentinel that does not break the loop.
DispatchNoBreak(d, item) ==
    IF IsStop(item) THEN [d EXCEPT !.pc = "get"] ELSE DispatchItem(d, item)

\* One pass of the while loop from `await self._queue.get()` to the next
\* suspension, for the dequeued item: the sentinel breaks the loop.
Dispatch(d, item) ==
    IF IsStop(item)
    THEN [d EXCEPT !.thread = "stopping", !.cause = "stop", !.pc = "done"]
    ELSE DispatchItem(d, item)

\* Dequeue that leaves the item on the queue.
DequeuePeek(d) == Dispatch(d, Head(d.queue))

\* task = await self._queue.get(), and the pass of the loop for it.
Dequeue(d) == Dispatch([d EXCEPT !.queue = Tail(@)], Head(d.queue))

\* The awaited future of the running Task completes: its result is bound
\* to `future` and recorded, or its exception leaves the coroutine.
TaskDone(d) ==
    IF d.cur.raises
    THEN Crash([d EXCEPT !.cur = NoItem])
    ELSE AppendOutput([d EXCEPT !.future = Returned(d.cur), !.cur = NoItem],
                      d.cur)

\* run_until_complete returns (or raises): the loop is no longer running
\* and the thread ends.
LoopExit(d) == [d EXCEPT !.thread = "dead"]

CanRunLoop(d) == d.thread = "started"
\* CanRunCallback for a loop that keeps serving callbacks after it stopped.
CanRunCallbackAnyTime(d) == d.ready # <<>>

CanRunCallback(d) == IsRunning(d) /\ d.ready # <<>>
\* CanDequeue for a loop that takes the next item while a Task is awaited.
CanDequeueWhileBusy(d) == d.thread = "running" /\ d.queue # <<>>

CanDequeue(d) == d.thread = "running" /\ d.pc = "get" /\ d.queue # <<>>
\* The awaited future can complete: a synchronous Task needs a worker
\* thread of the pool to run it.
CanTaskDone(d) ==
    /\ d.thread = "running" /\ d.pc = "exec"
    /\ d.cur.fn = "sync" => d.workers > 0
CanLoopExit(d) == d.thread = "stopping"

\* submit(task): the list of items the for loop puts one by one.
\*   arg.type: "task" (a Task), "list" (a list), "terminator", "str" (a
\*   string, iterated character by character)
submit(arg) ==
    IF arg.type = "task" THEN <<arg.elems[1]>>
    ELSE IF arg.type = "list" /\ is_list_of_tasks(arg.elems) THEN arg.elems
    ELSE IF arg.type = "terminator" THEN <<Str("stop")>>
    ELSE arg.elems

\* stop(): self.executor.shutdown() marks the pool shut down ...
StopShutdown(d) == [d EXCEPT !.pool = "shutdown"]

\* ... and waits for the pool's worker threads, that is for the work one
\* of them is running.
PoolIdle(d) == ~(d.pc = "exec" /\ d.cur.fn = "sync" /\ d.workers > 0)

\* set_max_workers that builds the pool anew.
set_max_workers_restart(d, n) == [d EXCEPT !.max_workers = n, !.workers = 0]

\* set_max_workers(max_workers): self.executor._max_workers = max_workers
set_max_workers(d, n) == [d EXCEPT !.max_workers = n]

\* clear(): one pass of `while len(self.history): self.history.pop()`
ClearPopOne(d) == [d EXCEPT !.history = SubSeq(@, 1, Len(@) - 1)]

\* StopSignal without the is_running test.
StopSignalAlways(d) == ExecPut(d, Str("stop"))

\* stop(): if self.loop.is_running(): put "stop"
StopSignal(d) == IF IsRunning(d) THEN ExecPut(d, Str("stop")) ELSE d

\* ---- swarm.py: platform, Node, Container, Manager ------------------------

\* The nodes the platform lists, in its order: n1 is the Manager's own
\* host, n2 another host: "ok" (ready, its dockerd reachable),
\* "unreachable" (ready, the connection fails) or "late" (not ready yet
\* when the nodes are listed), n3 a third host, ready and reachable.
PlatNodes(n2) ==
    <<[id |-> "n1", state |-> "ready", local |-> TRUE, reachable |-> TRUE],
      [id |-> "n2", state |-> IF n2 = "late" THEN "down" ELSE "ready",
       local |-> FALSE, reachable |-> n2 # "unreachable"],
      [id |-> "n3", state |-> "ready", local |-> FALSE, reachable |-> TRUE]>>

\* The platform: its nodes, the number of services this Manager has created
\* (gen), the Manager's service alive on it (svc, 0: none), the replicas
\* that service was created with, whether another service with the
\* requested name exists (bg), the tasks of svc that
\* service.tasks() lists, and the images each node's dockerd lists
\* (images, by node id).
Platform(n2) ==
    [nodes |-> PlatNodes(n2), gen |-> 0, svc |-> 0, replicas |-> 0,
     bg |-> FALSE, tasks |-> <<>>,
     images |-> [id \in {"n1", "n2", "n3"} |-> <<>>]]

\* One row of obj.top()['Processes'], the columns of `ps -ef`: UID, PID,
\* PPID (the columns after the third are left out).  The processes of a
\* container all have the container's shim as parent, PPID 0 here.
TopRow(pid) == <<"root", pid, 0>>

\* One platform task of a service: t['Status']['State'], whether
\* t['Status'] has the key 'ContainerStatus', t['NodeID'] ("" while the
\* task has no node), t['Status']['Err'] (0: none) and the process table
\* of its container (top), which starts with the container's own process,
\* and whether the container was told to stop.
PlatTask ==
    [state |-> "pending", cs |-> FALSE, node |-> "", err |-> 0,
     top |-> <<TopRow(1)>>, stopped |-> FALSE]

\* The node the platform places task j on: the ready nodes in turn.
Placement(p, j) ==
    LET ready == SelectSeq(p.nodes, LAMBDA n : n.state = "ready")
    IN  ready[((j - 1) % Len(ready)) + 1].id

\* update_nodes that gives up at the first node it cannot connect to.
update_nodes_abort(p) ==
    LET ready == SelectSeq(p.nodes, LAMBDA n : n.state = "ready")
        failed == {i \in 1..Len(ready) :
                     ~(ready[i].local \/ ready[i].reachable)}
        last == IF failed = {} THEN Len(ready)
                ELSE (CHOOSE i \in failed : \A o \in failed : i <= o) - 1
    IN  [i \in 1..last |-> [id |-> ready[i].id, client |-> TRUE]]

\* Manager.update_nodes: self.nodes = [], then every listed node whose
\* state is "ready", in the order listed, with the Manager's own client
\* for its own host, a new client for another host, and no client (None)
\* when making that client raised.
update_nodes(p) ==
    LET ready == SelectSeq(p.nodes, LAMBDA n : n.state = "ready")
    IN  [i \in 1..Len(ready) |->
            [id |-> ready[i].id,
             client |-> ready[i].local \/ ready[i].reachable]]

\* Container.fetch_processes, for the container of platform task j:
\* [p[2] for p in self.obj.top()['Processes']], the third column of every
\* row.
fetch_processes(p, j) ==
    [k \in 1..Len(p.tasks[j].top) |-> p.tasks[j].top[k][3]]

\* No container: the value of create_service's local `container` outside
\* the binding of a task.
NoUnit ==
    [id |-> <<0, 0>>, node |-> "", processes |-> <<>>, polled |-> FALSE,
     ex |-> NIPexec]

\* Container.__init__: set_idle takes the snapshot, _init_event_loop
\* creates the dispatcher (swarm.py names it Executor; executor.py
\* defines the dispatcher class as NIPexec).  id is <<service, task>>;
\* polled is run_in_container's local `idle` for the command the unit's
\* pool is running.
Container(id, node, p) ==
    [id |-> id, node |-> node, processes |-> fetch_processes(p, id[2]),
     polled |-> FALSE, ex |-> NIPexec]

\* idle that compares which values occur, not the lists.
idleAsSet(c, p) ==
    {c.processes[k] : k \in 1..Len(c.processes)} =
        {fetch_processes(p, c.id[2])[k] :
            k \in 1..Len(fetch_processes(p, c.id[2]))}

\* Container.idle: self.processes == self.fetch_processes(), an equality
\* of lists.
idle(c, p) == c.processes = fetch_processes(p, c.id[2])

\* Container.set_idle
set_idle(c, p) == [c EXCEPT !.processes = fetch_processes(p, c.id[2])]

\* Container.submit(cmd): one Task of run_in_container, put on the unit's
\* own dispatcher.
ContainerSubmit(c) ==
    [c EXCEPT !.ex = ExecPut(c.ex, [Task("sync", FALSE) EXCEPT
                                       !.val = "cmd", !.unit = c.id])]

\* Manager.__init__(n_workers): update_nodes, set_num_workers, no service,
\* no containers.  num_workers 0 is None.  The rest is where the Manager's
\* thread stands: pc, the loop index k, the task list of the for loop
\* (snap), the local `container` (unit), where remove_service returns to
\* (ret), the n_workers argument of the running create_service (arg), what
\* the last `container.idle` of the settling loop returned (seen), the
\* exception the last call raised (error, with the platform's Err in
\* detail) and the local list `outputs` of the property outputs (out).
\* Two records of what went before: the exception that had ended the call
\* before when remove_service was called (prev, empty in create_service),
\* and the process lists fetch_processes has returned for the local
\* `container` since it was constructed (samples).  query and result are
\* the arguments and the outcome of the last is_installed call.
Manager(n_workers, p) ==
    [service |-> 0, containers |-> <<>>, nodes |-> update_nodes(p),
     num_workers |-> n_workers,
     pc |-> "idle", k |-> 0, snap |-> <<>>, unit |-> NoUnit, ret |-> "idle",
     arg |-> 0, seen |-> FALSE, error |-> "", detail |-> 0, out |-> <<>>,
     prev |-> "", samples |-> <<>>, query |-> <<>>, result |-> "none"]

\* The asyncio loop of the Manager's user: the coroutine it is running
\* ("wait": Container.wait of the unit at index unit; "none": the loop is
\* free to schedule a coroutine) and the steps the coroutine scheduled
\* beside wait() has made.
Aio == [running |-> "none", unit |-> 0, other |-> 0]

\* Manager.set_num_workers: the replicas of the service mode (the
\* platform's default of one replica without a mode).
Replicas(m) == IF m.num_workers = 0 THEN 1 ELSE m.num_workers

\* Manager.outputs
outputs(m) ==
    LET RECURSIVE Ext(_)
        Ext(i) == IF i = 0 THEN <<>>
                  ELSE Ext(i - 1) \o m.containers[i].ex.history
    IN  Ext(Len(m.containers))

\* ---- images ---------------------------------------------------------------

\* A string is kept as the list of its parts between colons, which is what
\* split(':') returns.  The references of the images nodes hold: two tags
\* of one repository, and a repository on a registry named with its port.
ImageRefs ==
    {<<"img", "latest">>, <<"img", "v1">>, <<"reg", "5000/img", "latest">>}

\* One image of a node, with img.tags.
Image(ref) == [tags |-> <<ref>>]

\* The arguments is_installed is called with: a name, qualified or not,
\* and a tag ("" is None).
ImageNames == {<<"img">>, <<"img", "v1">>}

ImageTags == {"", "latest", "v1"}

\* Node.is_installed, the two loops: the strings of installed[i] from
\* the k-th on, then the next image.  A string that does not split in two
\* raises ValueError at the unpacking; a string whose name matches returns
\* True with or without an equal tag.
RECURSIVE ScanTags(_, _, _, _, _)
ScanTags(installed, i, k, search_name, search_tag) ==
    IF i > Len(installed) THEN "False"
    ELSE IF k > Len(installed[i])
    THEN ScanTags(installed, i + 1, 1, search_name, search_tag)
    ELSE LET img_string == installed[i][k]
         IN  IF Len(img_string) # 2 THEN "ValueError"
             ELSE IF img_string[1] = search_name
             THEN IF search_tag # "" /\ img_string[2] = search_tag
                  THEN "True"
                  ELSE "True"
             ELSE ScanTags(installed, i, k + 1, search_name, search_tag)

\* Node.is_installed(name, tag) of registry node n: self.installed is
\* self.client.images.list(), an AttributeError when client is None.
NodeIsInstalled(n, p, name, tag) ==
    IF ~n.client THEN "AttributeError"
    ELSE LET installed == [i \in 1..Len(p.images[n.id]) |->
                             p.images[n.id][i].tags]
         IN  IF Len(name) > 2 THEN "ValueError"
             ELSE IF Len(name) = 2
             THEN ScanTags(installed, 1, 1, name[1], name[2])
             ELSE ScanTags(installed, 1, 1, name[1], tag)

\* Manager.is_installed(name, tag): label and tag, then the list of
\* n.is_installed(label, tag) for every node of the registry, built in
\* full before all() looks at it, so the first call that raises ends the
\* call.
is_installed(m, p, name, tag) ==
    IF Len(name) > 2 THEN "ValueError"
    ELSE LET label == <<name[1]>>
             t == IF Len(name) = 2 THEN name[2]
                  ELSE IF tag = "" THEN "latest" ELSE tag
             res == [i \in 1..Len(m.nodes) |->
                       NodeIsInstalled(m.nodes[i], p, label, t)]
             raised == {i \in 1..Len(res) : res[i] \notin {"True", "False"}}
         IN  IF raised # {}
             THEN res[CHOOSE i \in raised : \A o \in raised : i <= o]
             ELSE IF \A i \in 1..Len(res) : res[i] = "True" THEN "True"
             ELSE "False"

\* ---- arguments of submit, bounded ---------------------------------------
TaskArgs ==
    {[type |-> "task", elems |-> <<Task("sync", FALSE)>>],
     [type |-> "task", elems |-> <<Task("sync", TRUE)>>],
     [type |-> "task", elems |-> <<Task("async", FALSE)>>]}

ListArgs ==
    {[type |-> "list", elems |-> <<Task("sync", FALSE), Task("async", FALSE)>>]}

OtherArgs ==
    {[type |-> "terminator", elems |-> <<>>],
     [type |-> "str", elems |-> <<Str("a")>>]}

SubmitArgs == TaskArgs \cup ListArgs \cup OtherArgs

\* Arguments of submit that are no Terminator: the Tasks and lists above, a
\* string, and a list that holds a string.
PlainArgs ==
    TaskArgs \cup ListArgs
        \cup {[type |-> "str", elems |-> <<Str("a")>>],
              [type |-> "list", elems |-> <<Str("stop")>>]}

\* The values set_max_workers is called with.
PoolSizes == {0, 1}

\* ---- Spec: one dispatcher, its loop thread, callers of submit and stop --
DispInit ==
    /\ nip = NIPexec
    /\ callers = [c \in Callers |-> <<>>]
    /\ stopPc = "idle"
    /\ stopDone = 0
    /\ lateSub = 0
    /\ clearPc = "idle"

Init ==
    /\ DispInit
    /\ plat = Platform("ok")
    /\ mgr = Manager(0, plat)
    /\ submitted = {}
    /\ ran = <<>>
    /\ aio = Aio

LoopRun ==
    /\ CanRunLoop(nip)
    /\ nip' = RunLoop(nip)
    /\ UNCHANGED <<callers, stopPc, stopDone, lateSub>>
    /\ UNCHANGED <<mgrVars, clearPc>>

LoopCallback ==
    /\ CanRunCallback(nip)
    /\ nip' = RunCallback(nip)
    /\ UNCHANGED <<callers, stopPc, stopDone, lateSub>>
    /\ UNCHANGED <<mgrVars, clearPc>>

LoopDequeue ==
    /\ CanDequeue(nip)
    /\ nip' = Dequeue(nip)
    /\ UNCHANGED <<callers, stopPc, stopDone, lateSub>>
    /\ UNCHANGED <<mgrVars, clearPc>>

LoopTaskDone ==
    /\ CanTaskDone(nip)
    /\ nip' = TaskDone(nip)
    /\ UNCHANGED <<callers, stopPc, stopDone, lateSub>>
    /\ UNCHANGED <<mgrVars, clearPc>>

LoopStopped ==
    /\ CanLoopExit(nip)
    /\ nip' = LoopExit(nip)
    /\ UNCHANGED <<callers, stopPc, stopDone, lateSub>>
    /\ UNCHANGED <<mgrVars, clearPc>>

LoopNext == LoopRun \/ LoopCallback \/ LoopDequeue \/ LoopTaskDone \/ LoopStopped

\* A caller enters submit(arg), arg one of args.
SubmitCallOf(c, args) ==
    /\ callers[c] = <<>>
    /\ \E arg \in args :
        /\ submit(arg) # <<>>
        /\ nip.nput + Len(callers[CHOOSE o \in Callers : o # c])
              + Len(submit(arg)) <= MaxPuts
        /\ callers' = [callers EXCEPT ![c] = submit(arg)]
    /\ UNCHANGED <<nip, stopPc, stopDone, lateSub>>
    /\ UNCHANGED <<mgrVars, clearPc>>

\* A caller enters submit(arg).
SubmitCall(c) == SubmitCallOf(c, SubmitArgs)

\* One turn of submit's for loop; submit returns after the last one.
SubmitPut(c) ==
    /\ callers[c] # <<>>
    /\ nip' = ExecPut(nip, Head(callers[c]))
    /\ callers' = [callers EXCEPT ![c] = Tail(@)]
    /\ lateSub' = IF IsAlive(nip) THEN lateSub ELSE lateSub + 1
    /\ UNCHANGED <<stopPc, stopDone>>
    /\ UNCHANGED <<mgrVars, clearPc>>

StopCall ==
    /\ stopPc = "idle"
    /\ stopDone < MaxStops
    /\ nip' = StopShutdown(nip)
    /\ stopPc' = "wait_pool"
    /\ UNCHANGED <<callers, stopDone, lateSub>>
    /\ UNCHANGED <<mgrVars, clearPc>>

StopPoolJoined ==
    /\ stopPc = "wait_pool"
    /\ PoolIdle(nip)
    /\ stopPc' = "check_running"
    /\ UNCHANGED <<nip, callers, stopDone, lateSub>>
    /\ UNCHANGED <<mgrVars, clearPc>>

StopCheckRunning ==
    /\ stopPc = "check_running"
    /\ nip' = StopSignal(nip)
    /\ stopPc' = "check_alive"
    /\ UNCHANGED <<callers, stopDone, lateSub>>
    /\ UNCHANGED <<mgrVars, clearPc>>

\* stop() returns without joining the thread.
StopCheckAliveNoJoin ==
    /\ stopPc = "check_alive"
    /\ stopPc' = "idle" /\ stopDone' = stopDone + 1
    /\ UNCHANGED <<nip, callers, lateSub>>
    /\ UNCHANGED <<mgrVars, clearPc>>

StopCheckAlive ==
    /\ stopPc = "check_alive"
    /\ IF IsAlive(nip)
       THEN stopPc' = "join" /\ UNCHANGED stopDone
       ELSE stopPc' = "idle" /\ stopDone' = stopDone + 1
    /\ UNCHANGED <<nip, callers, lateSub>>
    /\ UNCHANGED <<mgrVars, clearPc>>

StopJoin ==
    /\ stopPc = "join"
    /\ ~IsAlive(nip)
    /\ stopPc' = "idle"
    /\ stopDone' = stopDone + 1
    /\ UNCHANGED <<nip, callers, lateSub>>
    /\ UNCHANGED <<mgrVars, clearPc>>

StopNext ==
    StopCall \/ StopPoolJoined \/ StopCheckRunning \/ StopCheckAlive \/ StopJoin

Next ==
    \/ LoopNext
    \/ \E c \in Callers : SubmitCall(c) \/ SubmitPut(c)
    \/ StopNext

Spec == Init /\ [][Next]_vars

\* The loop thread, the thread inside stop() and a thread inside submit's
\* for loop are scheduled whenever they can run; nobody is obliged to call
\* submit or stop.
FairSpec ==
    /\ Spec
    /\ WF_vars(LoopNext)
    /\ WF_vars(StopNext)
    /\ \A c \in Callers : WF_vars(SubmitPut(c))

\* ---- SpecTune: one dispatcher, callers of submit, set_max_workers, clear -

\* A caller enters submit(arg) with an argument that is no Terminator.
PlainSubmitCall(c) == SubmitCallOf(c, PlainArgs)

\* A caller calls set_max_workers(n).
SetMaxWorkers(n) ==
    /\ nip.max_workers # n
    /\ nip' = set_max_workers(nip, n)
    /\ UNCHANGED <<callers, stopPc, stopDone, lateSub>>
    /\ UNCHANGED <<mgrVars, clearPc>>

\* A caller enters clear().
ClearCall ==
    /\ clearPc = "idle"
    /\ clearPc' = "loop"
    /\ UNCHANGED <<nip, callers, stopPc, stopDone, lateSub>>
    /\ UNCHANGED mgrVars

\* ClearPop that takes the oldest Output and stops there.
ClearPopOldestOnly ==
    /\ clearPc = "loop"
    /\ nip.history # <<>>
    /\ nip' = [nip EXCEPT !.history = Tail(@)]
    /\ clearPc' = "idle"
    /\ UNCHANGED <<callers, stopPc, stopDone, lateSub>>
    /\ UNCHANGED mgrVars

\* clear(): len(self.history) is not 0, the last Output is popped.
ClearPop ==
    /\ clearPc = "loop"
    /\ nip.history # <<>>
    /\ nip' = ClearPopOne(nip)
    /\ UNCHANGED <<clearPc, callers, stopPc, stopDone, lateSub>>
    /\ UNCHANGED mgrVars

\* clear(): len(self.history) is 0, clear returns.
ClearReturn ==
    /\ clearPc = "loop"
    /\ nip.history = <<>>
    /\ clearPc' = "idle"
    /\ UNCHANGED <<nip, callers, stopPc, stopDone, lateSub>>
    /\ UNCHANGED mgrVars

TuneNext ==
    \/ LoopNext
    \/ \E c \in Callers : PlainSubmitCall(c) \/ SubmitPut(c)
    \/ \E n \in PoolSizes : SetMaxWorkers(n)
    \/ ClearCall \/ ClearPop \/ ClearReturn

SpecTune == Init /\ [][TuneNext]_vars

\* ---- SpecMgr: one Manager, the platform, the dispatchers of its units ----
MgrInit ==
    /\ DispInit
    /\ \E n2 \in {"ok", "unreachable", "late"}, n_workers \in 0..MaxWorkers :
        /\ plat = Platform(n2)
        /\ mgr = Manager(n_workers, plat)
    /\ submitted = {}
    /\ ran = <<>>
    /\ aio = Aio

\* The unit remove_service is stopping.
StopUnit == mgr.containers[mgr.k].ex

\* remove_service starts: the containers first when there are any.
EnterRemove(m, ret) ==
    IF m.containers # <<>>
    THEN [m EXCEPT !.pc = "rm_stop", !.k = 1, !.ret = ret]
    ELSE [m EXCEPT !.pc = "rm_service", !.ret = ret]

\* create_service(image, name, n_workers=nw): `if self.service:
\* self.remove_service()`.  named: another service of the platform has the
\* requested name.
CreateService(nw, named) ==
    /\ mgr.pc = "idle"
    /\ plat.gen < MaxCreates
    /\ mgr' = LET m == [mgr EXCEPT !.arg = nw, !.prev = "",
                                   !.error = "", !.detail = 0]
              IN  IF mgr.service # 0
                  THEN EnterRemove(m, "cs_background")
                  ELSE [m EXCEPT !.pc = "cs_background"]
    /\ plat' = [plat EXCEPT !.bg = named]
    /\ UNCHANGED <<submitted, ran>>
    /\ UNCHANGED <<dispVars, aio>>

\* remove_service() called by the Manager's user.
RemoveService ==
    /\ mgr.pc = "idle"
    /\ mgr' = EnterRemove([mgr EXCEPT !.prev = mgr.error, !.error = "",
                                        !.detail = 0], "idle")
    /\ UNCHANGED <<plat, submitted, ran>>
    /\ UNCHANGED <<dispVars, aio>>

\* c.stop() that goes to self.obj.stop() at once.
RmStopSkipDispatcher ==
    /\ mgr.pc = "rm_stop"
    /\ mgr' = [mgr EXCEPT !.pc = "rm_obj_stop"]
    /\ UNCHANGED <<plat, submitted, ran>>
    /\ UNCHANGED <<dispVars, aio>>

\* c.stop() -> self._executor.stop(): self.executor.shutdown()
RmStopShutdown ==
    /\ mgr.pc = "rm_stop"
    /\ mgr' = [mgr EXCEPT !.containers[mgr.k].ex = StopShutdown(@),
                          !.pc = "rm_wait_pool"]
    /\ UNCHANGED <<plat, submitted, ran>>
    /\ UNCHANGED <<dispVars, aio>>

RmPoolJoined ==
    /\ mgr.pc = "rm_wait_pool"
    /\ PoolIdle(StopUnit)
    /\ mgr' = [mgr EXCEPT !.pc = "rm_check_running"]
    /\ UNCHANGED <<plat, submitted, ran>>
    /\ UNCHANGED <<dispVars, aio>>

RmCheckRunning ==
    /\ mgr.pc = "rm_check_running"
    /\ mgr' = [mgr EXCEPT !.containers[mgr.k].ex = StopSignal(@),
                          !.pc = "rm_check_alive"]
    /\ UNCHANGED <<plat, submitted, ran>>
    /\ UNCHANGED <<dispVars, aio>>

\* The thread is not joined.
RmCheckAliveNoJoin ==
    /\ mgr.pc = "rm_check_alive"
    /\ mgr' = [mgr EXCEPT !.pc = "rm_obj_stop"]
    /\ UNCHANGED <<plat, submitted, ran>>
    /\ UNCHANGED <<dispVars, aio>>

RmCheckAlive ==
    /\ mgr.pc = "rm_check_alive"
    /\ mgr' = [mgr EXCEPT !.pc = IF IsAlive(StopUnit) THEN "rm_join"
                                 ELSE "rm_obj_stop"]
    /\ UNCHANGED <<plat, submitted, ran>>
    /\ UNCHANGED <<dispVars, aio>>

RmJoin ==
    /\ mgr.pc = "rm_join"
    /\ ~IsAlive(StopUnit)
    /\ mgr' = [mgr EXCEPT !.pc = "rm_obj_stop"]
    /\ UNCHANGED <<plat, submitted, ran>>
    /\ UNCHANGED <<dispVars, aio>>

\* Container.stop: self.obj.stop() reaches the container of unit c.
ObjStop(p, c) ==
    IF c.id[1] = p.svc /\ c.id[2] \in 1..Len(p.tasks)
    THEN [p EXCEPT !.tasks[c.id[2]].stopped = TRUE]
    ELSE p

\* The list of containers is not cleared.
RmObjStopNoClear ==
    /\ mgr.pc = "rm_obj_stop"
    /\ mgr' = IF mgr.k < Len(mgr.containers)
              THEN [mgr EXCEPT !.k = @ + 1, !.pc = "rm_stop"]
              ELSE [mgr EXCEPT !.k = 0, !.pc = "rm_service"]
    /\ plat' = ObjStop(plat, mgr.containers[mgr.k])
    /\ UNCHANGED <<submitted, ran>>
    /\ UNCHANGED <<dispVars, aio>>

\* c.stop(): self.obj.stop(); then the next container, and after the last
\* one self.containers.clear().
RmObjStop ==
    /\ mgr.pc = "rm_obj_stop"
    /\ mgr' = IF mgr.k < Len(mgr.containers)
              THEN [mgr EXCEPT !.k = @ + 1, !.pc = "rm_stop"]
              ELSE [mgr EXCEPT !.containers = <<>>, !.k = 0, !.pc = "rm_service"]
    /\ plat' = ObjStop(plat, mgr.containers[mgr.k])
    /\ UNCHANGED <<submitted, ran>>
    /\ UNCHANGED <<dispVars, aio>>

\* remove_service: `if self.service: self.service.remove()`;
\* self.service = None; and back to the caller.
RmService ==
    /\ mgr.pc = "rm_service"
    /\ plat' = IF mgr.service # 0
               THEN [plat EXCEPT !.svc = 0, !.tasks = <<>>]
               ELSE plat
    /\ mgr' = [mgr EXCEPT !.service = 0, !.pc = mgr.ret, !.ret = "idle"]
    /\ UNCHANGED <<submitted, ran>>
    /\ UNCHANGED <<dispVars, aio>>

\* The other services are left alone.
CsKeepBackground ==
    /\ mgr.pc = "cs_background"
    /\ mgr' = [mgr EXCEPT !.pc = "cs_create"]
    /\ UNCHANGED <<plat, submitted, ran>>
    /\ UNCHANGED <<dispVars, aio>>

\* Line 303: remove_background_services(name) removes every other service
\* with the requested name (self.service is None here).
CsRemoveBackground ==
    /\ mgr.pc = "cs_background"
    /\ plat' = [plat EXCEPT !.bg = FALSE]
    /\ mgr' = [mgr EXCEPT !.pc = "cs_create"]
    /\ UNCHANGED <<submitted, ran>>
    /\ UNCHANGED <<dispVars, aio>>

\* Lines 306-317: with an n_workers argument self.set_num_containers, which
\* Manager does not define (AttributeError); services.create with
\* self.mode; self.containers = [].  The platform lists the tasks of the
\* new service at once or only later.
CsCreate ==
    /\ mgr.pc = "cs_create"
    /\ IF mgr.arg # 0
       THEN /\ mgr' = [mgr EXCEPT !.pc = "idle", !.error = "AttributeError"]
            /\ plat' = plat
       ELSE /\ \E listed \in BOOLEAN :
                plat' = [plat EXCEPT
                           !.gen = @ + 1, !.svc = plat.gen + 1,
                           !.replicas = Replicas(mgr),
                           !.tasks = IF listed
                                     THEN [j \in 1..Replicas(mgr) |-> PlatTask]
                                     ELSE <<>>]
            /\ mgr' = [mgr EXCEPT !.service = plat.gen + 1,
                                  !.containers = <<>>,
                                  !.pc = "cs_wait_assigned"]
    /\ UNCHANGED <<submitted, ran>>
    /\ UNCHANGED <<dispVars, aio>>

\* Lines 321-326: the poll ends when no task is in state 'assigned'.
CsPollAssigned ==
    /\ mgr.pc = "cs_wait_assigned"
    /\ \A j \in 1..Len(plat.tasks) : plat.tasks[j].state # "assigned"
    /\ mgr' = [mgr EXCEPT !.pc = "cs_check_rejected"]
    /\ UNCHANGED <<plat, submitted, ran>>
    /\ UNCHANGED <<dispVars, aio>>

\* The rejected tasks are not looked at.
CsCheckRejectedIgnore ==
    /\ mgr.pc = "cs_check_rejected"
    /\ mgr' = [mgr EXCEPT !.pc = "cs_wait_active"]
    /\ UNCHANGED <<plat, submitted, ran>>
    /\ UNCHANGED <<dispVars, aio>>

\* The rejected service is removed before the exception is raised.
CsCheckRejectedCleanup ==
    /\ mgr.pc = "cs_check_rejected"
    /\ LET errs == SelectSeq(plat.tasks, LAMBDA t : t.state = "rejected")
       IN  IF errs # <<>>
           THEN /\ mgr' = [mgr EXCEPT !.pc = "idle", !.service = 0,
                                      !.error = "Service rejected",
                                      !.detail = errs[1].err]
                /\ plat' = [plat EXCEPT !.svc = 0, !.tasks = <<>>]
           ELSE /\ mgr' = [mgr EXCEPT !.pc = "cs_wait_active"]
                /\ plat' = plat
    /\ UNCHANGED <<submitted, ran>>
    /\ UNCHANGED <<dispVars, aio>>

\* Lines 328-331: the task list again; a rejected task raises with the Err
\* of the first one.
CsCheckRejected ==
    /\ mgr.pc = "cs_check_rejected"
    /\ mgr' = LET errs == SelectSeq(plat.tasks,
                                    LAMBDA t : t.state = "rejected")
              IN  IF errs # <<>>
                  THEN [mgr EXCEPT !.pc = "idle", !.error = "Service rejected",
                                   !.detail = errs[1].err]
                  ELSE [mgr EXCEPT !.pc = "cs_wait_active"]
    /\ UNCHANGED <<plat, submitted, ran>>
    /\ UNCHANGED <<dispVars, aio>>

\* The containers are not waited for.
CsPollActiveNoWait ==
    /\ mgr.pc = "cs_wait_active"
    /\ mgr' = [mgr EXCEPT !.pc = "cs_fetch"]
    /\ UNCHANGED <<plat, submitted, ran>>
    /\ UNCHANGED <<dispVars, aio>>

\* Lines 334-340: the poll ends when every task has a ContainerStatus.
CsPollActive ==
    /\ mgr.pc = "cs_wait_active"
    /\ \A j \in 1..Len(plat.tasks) : plat.tasks[j].cs
    /\ mgr' = [mgr EXCEPT !.pc = "cs_fetch"]
    /\ UNCHANGED <<plat, submitted, ran>>
    /\ UNCHANGED <<dispVars, aio>>

\* Line 344: for t in self.service.tasks()
CsFetch ==
    /\ mgr.pc = "cs_fetch"
    /\ mgr' = [mgr EXCEPT !.snap = plat.tasks, !.k = 1, !.pc = "cs_bind"]
    /\ UNCHANGED <<plat, submitted, ran>>
    /\ UNCHANGED <<dispVars, aio>>

\* The client of the node is not looked at.
CsBindAnyNode ==
    /\ mgr.pc = "cs_bind"
    /\ mgr' =
         IF mgr.k > Len(mgr.snap)
         THEN [mgr EXCEPT !.pc = "idle", !.k = 0, !.snap = <<>>]
         ELSE LET t == mgr.snap[mgr.k]
              IN  IF t.node = ""
                  THEN [mgr EXCEPT !.pc = "idle", !.k = 0, !.snap = <<>>,
                                   !.error = "KeyError: NodeID"]
                  ELSE IF ~t.cs
                  THEN [mgr EXCEPT !.pc = "idle", !.k = 0, !.snap = <<>>,
                                   !.error = "KeyError: ContainerStatus"]
                  ELSE [mgr EXCEPT
                          !.unit = Container(<<mgr.service, mgr.k>>, t.node, plat),
                          !.samples = <<fetch_processes(plat, mgr.k)>>,
                          !.seen = FALSE, !.pc = "cs_settle"]
    /\ UNCHANGED <<plat, submitted, ran>>
    /\ UNCHANGED <<dispVars, aio>>

\* Lines 345-354 for task k of the list: t['NodeID'] (KeyError while the
\* task has no node), the container id (KeyError without a
\* ContainerStatus), the node of the registry, and with a client the
\* Container; or, after the last task, the return.
CsBind ==
    /\ mgr.pc = "cs_bind"
    /\ mgr' =
         IF mgr.k > Len(mgr.snap)
         THEN [mgr EXCEPT !.pc = "idle", !.k = 0, !.snap = <<>>]
         ELSE LET t == mgr.snap[mgr.k]
                  node == SelectSeq(mgr.nodes, LAMBDA n : n.id = t.node)
              IN  IF t.node = ""
                  THEN [mgr EXCEPT !.pc = "idle", !.k = 0, !.snap = <<>>,
                                   !.error = "KeyError: NodeID"]
                  ELSE IF ~t.cs
                  THEN [mgr EXCEPT !.pc = "idle", !.k = 0, !.snap = <<>>,
                                   !.error = "KeyError: ContainerStatus"]
                  ELSE IF node # <<>> /\ node[1].client
                  THEN [mgr EXCEPT
                          !.unit = Container(<<mgr.service, mgr.k>>, t.node, plat),
                          !.samples = <<fetch_processes(plat, mgr.k)>>,
                          !.seen = FALSE, !.pc = "cs_settle"]
                  ELSE [mgr EXCEPT !.k = @ + 1]
    /\ UNCHANGED <<plat, submitted, ran>>
    /\ UNCHANGED <<dispVars, aio>>

\* The unit is appended whatever container.idle returns.
CsSettleOnce ==
    /\ mgr.pc = "cs_settle"
    /\ mgr' = [mgr EXCEPT !.seen = idle(mgr.unit, plat),
                          !.samples = Append(@, fetch_processes(plat, mgr.k)),
                          !.pc = "cs_append"]
    /\ UNCHANGED <<plat, submitted, ran>>
    /\ UNCHANGED <<dispVars, aio>>

\* container.idle that stores the list it fetched.
CsSettleRebaseline ==
    /\ mgr.pc = "cs_settle"
    /\ mgr' = [mgr EXCEPT !.seen = idle(mgr.unit, plat),
                          !.unit = set_idle(@, plat),
                          !.samples = Append(@, fetch_processes(plat, mgr.k)),
                          !.pc = IF idle(mgr.unit, plat) THEN "cs_append"
                                 ELSE "cs_set_idle"]
    /\ UNCHANGED <<plat, submitted, ran>>
    /\ UNCHANGED <<dispVars, aio>>

\* Line 355: `while not container.idle`
CsSettle ==
    /\ mgr.pc = "cs_settle"
    /\ mgr' = [mgr EXCEPT !.seen = idle(mgr.unit, plat),
                          !.samples = Append(@, fetch_processes(plat, mgr.k)),
                          !.pc = IF idle(mgr.unit, plat) THEN "cs_append"
                                 ELSE "cs_set_idle"]
    /\ UNCHANGED <<plat, submitted, ran>>
    /\ UNCHANGED <<dispVars, aio>>

\* Lines 356-357: sleep, container.set_idle()
CsSetIdle ==
    /\ mgr.pc = "cs_set_idle"
    /\ mgr' = [mgr EXCEPT !.unit = set_idle(@, plat),
                          !.samples = Append(@, fetch_processes(plat, mgr.k)),
                          !.pc = "cs_settle"]
    /\ UNCHANGED <<plat, submitted, ran>>
    /\ UNCHANGED <<dispVars, aio>>

\* Line 358: self.containers.append(container), and the next task.
CsAppend ==
    /\ mgr.pc = "cs_append"
    /\ mgr' = [mgr EXCEPT !.containers = Append(@, mgr.unit),
                          !.unit = NoUnit, !.samples = <<>>,
                          !.k = @ + 1, !.pc = "cs_bind"]
    /\ UNCHANGED <<plat, submitted, ran>>
    /\ UNCHANGED <<dispVars, aio>>

\* The Manager's user calls submit(cmd) on a bound unit.
UnitSubmit(i) ==
    /\ mgr.pc = "idle"
    /\ i \in 1..Len(mgr.containers)
    /\ Cardinality(submitted) < MaxCmds
    /\ mgr' = [mgr EXCEPT !.containers[i] = ContainerSubmit(@)]
    /\ submitted' = submitted \cup
          {<<mgr.containers[i].id, mgr.containers[i].ex.nput + 1>>}
    /\ UNCHANGED <<plat, ran>>
    /\ UNCHANGED <<dispVars, aio>>

\* The loop thread of the dispatcher of unit i.
UnitRun(i) ==
    /\ i \in 1..Len(mgr.containers)
    /\ CanRunLoop(mgr.containers[i].ex)
    /\ mgr' = [mgr EXCEPT !.containers[i].ex = RunLoop(@)]
    /\ UNCHANGED <<plat, submitted, ran>>
    /\ UNCHANGED <<dispVars, aio>>

UnitCallback(i) ==
    /\ i \in 1..Len(mgr.containers)
    /\ CanRunCallback(mgr.containers[i].ex)
    /\ mgr' = [mgr EXCEPT !.containers[i].ex = RunCallback(@)]
    /\ UNCHANGED <<plat, submitted, ran>>
    /\ UNCHANGED <<dispVars, aio>>

\* UnitDequeue for units that share one pool: no unit starts a command
\* while another unit's command runs.
UnitDequeueShared(i) ==
    /\ i \in 1..Len(mgr.containers)
    /\ CanDequeue(mgr.containers[i].ex)
    /\ \A o \in 1..Len(mgr.containers) : mgr.containers[o].ex.pc # "exec"
    /\ mgr' = [mgr EXCEPT !.containers[i].ex = Dequeue(@)]
    /\ ran' = IF Len(mgr'.containers[i].ex.invoked)
                    > Len(mgr.containers[i].ex.invoked)
              THEN Append(ran, <<mgr.containers[i].id,
                                 Head(mgr.containers[i].ex.queue).id>>)
              ELSE ran
    /\ UNCHANGED <<plat, submitted>>
    /\ UNCHANGED <<dispVars, aio>>

UnitDequeue(i) ==
    /\ i \in 1..Len(mgr.containers)
    /\ CanDequeue(mgr.containers[i].ex)
    /\ mgr' = [mgr EXCEPT !.containers[i].ex = Dequeue(@)]
    /\ ran' = IF Len(mgr'.containers[i].ex.invoked)
                    > Len(mgr.containers[i].ex.invoked)
              THEN Append(ran, <<mgr.containers[i].id,
                                 Head(mgr.containers[i].ex.queue).id>>)
              ELSE ran
    /\ UNCHANGED <<plat, submitted>>
    /\ UNCHANGED <<dispVars, aio>>

\* run_in_container, in the unit's pool: one pass of
\* `while not idle: idle = c.idle`.
UnitIdleCheck(i) ==
    /\ i \in 1..Len(mgr.containers)
    /\ CanTaskDone(mgr.containers[i].ex)
    /\ ~mgr.containers[i].polled
    /\ mgr' = [mgr EXCEPT !.containers[i].polled = idle(mgr.containers[i], plat)]
    /\ UNCHANGED <<plat, submitted, ran>>
    /\ UNCHANGED <<dispVars, aio>>

\* UnitTaskDone without the polling loop before exec_run.
UnitTaskDoneUngated(i) ==
    /\ i \in 1..Len(mgr.containers)
    /\ CanTaskDone(mgr.containers[i].ex)
    /\ mgr' = [mgr EXCEPT !.containers[i].ex = TaskDone(@),
                          !.containers[i].polled = FALSE]
    /\ UNCHANGED <<plat, submitted, ran>>
    /\ UNCHANGED <<dispVars, aio>>

\* run_in_container: the loop was left, `return c.obj.exec_run(cmd)` runs
\* the command in the container and its result is what the Task returns.
UnitTaskDone(i) ==
    /\ i \in 1..Len(mgr.containers)
    /\ CanTaskDone(mgr.containers[i].ex)
    /\ mgr.containers[i].polled
    /\ mgr' = [mgr EXCEPT !.containers[i].ex = TaskDone(@),
                          !.containers[i].polled = FALSE]
    /\ UNCHANGED <<plat, submitted, ran>>
    /\ UNCHANGED <<dispVars, aio>>

UnitStopped(i) ==
    /\ i \in 1..Len(mgr.containers)
    /\ CanLoopExit(mgr.containers[i].ex)
    /\ mgr' = [mgr EXCEPT !.containers[i].ex = LoopExit(@)]
    /\ UNCHANGED <<plat, submitted, ran>>
    /\ UNCHANGED <<dispVars, aio>>

\* The platform lists the tasks of the service it had not listed yet.
PlatformSchedule ==
    /\ plat.svc # 0
    /\ plat.tasks = <<>>
    /\ plat' = [plat EXCEPT !.tasks = [j \in 1..plat.replicas |-> PlatTask]]
    /\ UNCHANGED <<mgr, submitted, ran>>
    /\ UNCHANGED <<dispVars, aio>>

\* A node that was down becomes ready.
PlatformNodeReady ==
    /\ \E n \in 1..Len(plat.nodes) :
        /\ plat.nodes[n].state = "down"
        /\ plat' = [plat EXCEPT !.nodes[n].state = "ready"]
    /\ UNCHANGED <<mgr, submitted, ran>>
    /\ UNCHANGED <<dispVars, aio>>

\* The platform moves a task on: pending -> assigned (it has a node) ->
\* running (its container exists) or rejected (with an Err).
PlatformAssign(j) ==
    /\ j \in 1..Len(plat.tasks)
    /\ plat.tasks[j].state = "pending"
    /\ plat' = [plat EXCEPT !.tasks[j].state = "assigned",
                            !.tasks[j].node = Placement(plat, j)]
    /\ UNCHANGED <<mgr, submitted, ran>>
    /\ UNCHANGED <<dispVars, aio>>

PlatformStart(j) ==
    /\ j \in 1..Len(plat.tasks)
    /\ plat.tasks[j].state = "assigned"
    /\ plat' = [plat EXCEPT !.tasks[j].state = "running", !.tasks[j].cs = TRUE]
    /\ UNCHANGED <<mgr, submitted, ran>>
    /\ UNCHANGED <<dispVars, aio>>

PlatformReject(j) ==
    /\ j \in 1..Len(plat.tasks)
    /\ plat.tasks[j].state = "assigned"
    /\ plat' = [plat EXCEPT !.tasks[j].state = "rejected", !.tasks[j].err = j]
    /\ UNCHANGED <<mgr, submitted, ran>>
    /\ UNCHANGED <<dispVars, aio>>

\* The process list of a running container changes (of the container of the
\* service's first task, MaxProc times).
PlatformProc(j) ==
    /\ j \in 1..Len(plat.tasks)
    /\ j = 1
    /\ plat.tasks[j].cs
    /\ Len(plat.tasks[j].top) <= MaxProc
    /\ plat' = [plat EXCEPT !.tasks[j].top = Append(@, TopRow(Len(@) + 1))]
    /\ UNCHANGED <<mgr, submitted, ran>>
    /\ UNCHANGED <<dispVars, aio>>

\* The Manager's user calls update_nodes() again, and the registry keeps
\* what it held.
UpdateNodesKeep ==
    /\ mgr.pc = "idle"
    /\ mgr' = [mgr EXCEPT !.nodes = @ \o update_nodes(plat)]
    /\ UNCHANGED <<plat, submitted, ran>>
    /\ UNCHANGED <<dispVars, aio>>

\* The Manager's user calls update_nodes() again.
UpdateNodes ==
    /\ mgr.pc = "idle"
    /\ mgr' = [mgr EXCEPT !.nodes = update_nodes(plat)]
    /\ UNCHANGED <<plat, submitted, ran>>
    /\ UNCHANGED <<dispVars, aio>>

\* A ready node other than the Manager's own host leaves the ready state.
PlatformNodeDown ==
    /\ \E n \in 1..Len(plat.nodes) :
        /\ plat.nodes[n].state = "ready"
        /\ ~plat.nodes[n].local
        /\ plat' = [plat EXCEPT !.nodes[n].state = "down"]
    /\ UNCHANGED <<mgr, submitted, ran>>
    /\ UNCHANGED <<dispVars, aio>>

\* The dockerd of another host becomes reachable, or stops being so.
PlatformReach ==
    /\ \E n \in 1..Len(plat.nodes) :
        /\ ~plat.nodes[n].local
        /\ plat' = [plat EXCEPT !.nodes[n].reachable = ~@]
    /\ UNCHANGED <<mgr, submitted, ran>>
    /\ UNCHANGED <<dispVars, aio>>

\* The calls of the Manager's user.
MgrCalls ==
    \/ \E nw \in {0, MaxWorkers}, named \in BOOLEAN : CreateService(nw, named)
    \/ RemoveService
    \/ UpdateNodes

\* The steps of the Manager's thread inside a call.
MgrSteps ==
    \/ RmStopShutdown \/ RmPoolJoined \/ RmCheckRunning \/ RmCheckAlive
    \/ RmJoin \/ RmObjStop \/ RmService
    \/ CsRemoveBackground \/ CsCreate \/ CsPollAssigned \/ CsCheckRejected
    \/ CsPollActive \/ CsFetch \/ CsBind \/ CsSettle \/ CsSetIdle \/ CsAppend

MgrThread == MgrCalls \/ MgrSteps

\* The loops of the units' dispatchers, short of the end of a command.
UnitLoops ==
    \E i \in 1..MaxWorkers :
        UnitRun(i) \/ UnitCallback(i) \/ UnitDequeue(i) \/ UnitStopped(i)

UnitThreads ==
    \/ UnitLoops
    \/ \E i \in 1..MaxWorkers : UnitIdleCheck(i) \/ UnitTaskDone(i)

\* What the platform does for a service it accepted.
PlatformProgress ==
    \/ PlatformSchedule
    \/ \E j \in 1..MaxWorkers : PlatformAssign(j) \/ PlatformStart(j)

PlatformNext ==
    \/ PlatformProgress
    \/ PlatformNodeReady
    \/ \E j \in 1..MaxWorkers : PlatformReject(j) \/ PlatformProc(j)

MgrNext ==
    \/ MgrThread
    \/ \E i \in 1..MaxWorkers : UnitSubmit(i)
    \/ UnitThreads
    \/ PlatformNext

SpecMgr == MgrInit /\ [][MgrNext]_vars

\* ---- SpecSvc: the Manager provisioning and tearing down services ---------

\* As SpecMgr, with no command submitted to the units: the Manager's calls,
\* the platform, and the loops of the units' dispatchers.
SvcNext ==
    \/ MgrThread
    \/ UnitLoops
    \/ PlatformNext

SpecSvc == MgrInit /\ [][SvcNext]_vars

\* The Manager's thread and the dispatchers' threads keep running, and the
\* platform keeps working on the tasks of a service.
FairSpecSvc ==
    /\ SpecSvc
    /\ WF_vars(MgrSteps)
    /\ WF_vars(UnitLoops)
    /\ WF_vars(PlatformProgress)

\* ---- SpecNodes: the Manager's node registry and a changing cluster ------
NodesNext ==
    \/ UpdateNodes
    \/ PlatformNodeReady \/ PlatformNodeDown \/ PlatformReach

SpecNodes == MgrInit /\ [][NodesNext]_vars

\* ---- SpecUnits: the units of a bound service at work ---------------------

\* The platform after create_service with MaxWorkers replicas: every task
\* placed and its container started.
BoundPlatform ==
    LET p == Platform("ok")
    IN  [p EXCEPT !.gen = 1, !.svc = 1, !.replicas = MaxWorkers,
                  !.tasks = [j \in 1..MaxWorkers |->
                                [PlatTask EXCEPT !.state = "running",
                                                 !.cs = TRUE,
                                                 !.node = Placement(p, j)]]]

\* ---- SpecImages: the images of the nodes and Manager.is_installed --------

\* The Manager's user calls is_installed(name, tag).
IsInstalled(name, tag) ==
    /\ mgr.pc = "idle"
    /\ mgr' = [mgr EXCEPT !.query = <<name, tag>>,
                          !.result = is_installed(mgr, plat, name, tag)]
    /\ UNCHANGED <<plat, submitted, ran>>
    /\ UNCHANGED <<dispVars, aio>>

\* Node.pull(repository, tag) on registry node i, and the pull has come to
\* its end: the node lists the image.
NodePull(i, ref) ==
    /\ i \in 1..Len(mgr.nodes)
    /\ mgr.nodes[i].client
    /\ LET id == mgr.nodes[i].id
       IN  /\ Len(plat.images[id]) < MaxImages
           /\ \A k \in 1..Len(plat.images[id]) :
                  plat.images[id][k] # Image(ref)
           /\ plat' = [plat EXCEPT !.images[id] = Append(@, Image(ref))]
    /\ UNCHANGED <<mgr, submitted, ran>>
    /\ UNCHANGED <<dispVars, aio>>

\* Node.remove_image(name) on registry node i, for an image the node has.
NodeRemoveImage(i, ref) ==
    /\ i \in 1..Len(mgr.nodes)
    /\ mgr.nodes[i].client
    /\ LET id == mgr.nodes[i].id
       IN  /\ \E k \in 1..Len(plat.images[id]) :
                  plat.images[id][k] = Image(ref)
           /\ plat' = [plat EXCEPT !.images[id] =
                          SelectSeq(@, LAMBDA im : im # Image(ref))]
    /\ UNCHANGED <<mgr, submitted, ran>>
    /\ UNCHANGED <<dispVars, aio>>

ImagesNext ==
    \/ \E name \in ImageNames, tag \in ImageTags : IsInstalled(name, tag)
    \/ \E i \in 1..Len(PlatNodes("ok")), ref \in ImageRefs :
          NodePull(i, ref) \/ NodeRemoveImage(i, ref)

SpecImages == MgrInit /\ [][ImagesNext]_vars

\* The Manager after Manager(n_workers=MaxWorkers) and a create_service
\* that bound every replica.
BoundManager ==
    LET p == BoundPlatform
    IN  [Manager(MaxWorkers, p) EXCEPT
            !.service = 1,
            !.containers = [j \in 1..MaxWorkers |->
                               Container(<<1, j>>, p.tasks[j].node, p)],
            !.seen = TRUE]

UnitsInit ==
    /\ DispInit
    /\ plat = BoundPlatform
    /\ mgr = BoundManager
    /\ submitted = {}
    /\ ran = <<>>
    /\ aio = Aio

\* Manager.outputs: `outputs = []`
OutputsCall ==
    /\ mgr.pc = "idle"
    /\ mgr' = [mgr EXCEPT !.pc = "out_extend", !.k = 0, !.out = <<>>]
    /\ UNCHANGED <<plat, submitted, ran>>
    /\ UNCHANGED <<dispVars, aio>>

\* OutputsExtend that puts the unit's Outputs in front.
OutputsExtendFront ==
    /\ mgr.pc = "out_extend"
    /\ mgr.k < Len(mgr.containers)
    /\ mgr' = [mgr EXCEPT !.out = mgr.containers[mgr.k + 1].ex.history \o @,
                          !.k = @ + 1]
    /\ UNCHANGED <<plat, submitted, ran>>
    /\ UNCHANGED <<dispVars, aio>>

\* Manager.outputs: one pass of `for c in self.containers:
\* outputs.extend(c.outputs)`, c.outputs being the history of c's
\* dispatcher.
OutputsExtend ==
    /\ mgr.pc = "out_extend"
    /\ mgr.k < Len(mgr.containers)
    /\ mgr' = [mgr EXCEPT !.out = @ \o mgr.containers[mgr.k + 1].ex.history,
                          !.k = @ + 1]
    /\ UNCHANGED <<plat, submitted, ran>>
    /\ UNCHANGED <<dispVars, aio>>

\* Manager.outputs: `return outputs`
OutputsReturn ==
    /\ mgr.pc = "out_extend"
    /\ mgr.k = Len(mgr.containers)
    /\ mgr' = [mgr EXCEPT !.pc = "idle"]
    /\ UNCHANGED <<plat, submitted, ran>>
    /\ UNCHANGED <<dispVars, aio>>

\* The user's loop starts running `await c.wait()` for the unit at index i.
AioWaitCall(i) ==
    /\ aio.running = "none"
    /\ i \in 1..Len(mgr.containers)
    /\ aio' = [aio EXCEPT !.running = "wait", !.unit = i]
    /\ UNCHANGED <<mgr, plat, submitted, ran>>
    /\ UNCHANGED dispVars

\* Container.wait: one pass of `while not ready: ready = self.idle`.  The
\* loop body awaits nothing: the coroutine keeps the loop until idle
\* returned True, and then returns.
AioWaitPoll ==
    /\ aio.running = "wait"
    /\ aio' = IF idle(mgr.containers[aio.unit], plat)
              THEN [aio EXCEPT !.running = "none", !.unit = 0]
              ELSE aio
    /\ UNCHANGED <<mgr, plat, submitted, ran>>
    /\ UNCHANGED dispVars

\* The user's loop can give a step to another coroutine: it is running
\* none.
CanRunOther(a) == a.running = "none" /\ a.other < MaxTicks

\* A coroutine scheduled beside wait() on the user's loop makes a step.
AioOther ==
    /\ CanRunOther(aio)
    /\ aio' = [aio EXCEPT !.other = @ + 1]
    /\ UNCHANGED <<mgr, plat, submitted, ran>>
    /\ UNCHANGED dispVars

\* The steps of the threads of unit i: its dispatcher's loop and its pool.
UnitThread(i) ==
    \/ UnitRun(i) \/ UnitCallback(i) \/ UnitDequeue(i)
    \/ UnitIdleCheck(i) \/ UnitTaskDone(i)

\* Commands are submitted to the units and run by them.
UnitsNext ==
    \/ \E i \in 1..MaxWorkers : UnitSubmit(i)
    \/ \E i \in 1..MaxWorkers : UnitThread(i)
    \/ \E j \in 1..MaxWorkers : PlatformProc(j)

SpecUnits == UnitsInit /\ [][UnitsNext]_vars

\* The same, with the Manager's user reading Manager.outputs.
ReadNext ==
    \/ \E i \in 1..MaxWorkers : UnitSubmit(i)
    \/ \E i \in 1..MaxWorkers : UnitThread(i)
    \/ \E j \in 1..MaxWorkers : PlatformProc(j)
    \/ OutputsCall \/ OutputsExtend \/ OutputsReturn

SpecRead == UnitsInit /\ [][ReadNext]_vars

\* The same, with the Manager's user awaiting Container.wait on a loop
\* that has another coroutine to run.
WaitNext ==
    \/ \E i \in 1..MaxWorkers : UnitSubmit(i)
    \/ \E i \in 1..MaxWorkers : UnitThread(i)
    \/ \E j \in 1..MaxWorkers : PlatformProc(j)
    \/ \E i \in 1..MaxWorkers : AioWaitCall(i)
    \/ AioWaitPoll \/ AioOther

SpecWait == UnitsInit /\ [][WaitNext]_vars

\* Every unit has its own thread and its own pool, and each is scheduled
\* whenever it can run.
FairSpecUnits ==
    /\ SpecUnits
    /\ \A i \in 1..MaxWorkers : WF_vars(UnitThread(i))

\* ---- helpers of the properties ------------------------------------------

\* Every item ever handed to the loop by a put, in put order.
AllPut(d) == d.enq \o d.ready

\* The Outputs of history whose task is item.
OutputsOf(d, item) == {h \in 1..Len(d.history) : d.history[h].task = item}

\* The places of id in the invocation record.
CallsOf(d, id) == {k \in 1..Len(d.invoked) : d.invoked[k] = id}

\* The loop waits on an empty queue, no put is on its way and no submit
\* is in progress.
Drained ==
    /\ nip.thread = "running" /\ nip.pc = "get"
    /\ nip.queue = <<>> /\ nip.ready = <<>>
    /\ \A c \in Callers : callers[c] = <<>>

\* ---- C1 -----------------------------------------------------------------
\* C1: once the loop has drained the queue, history holds one Output per
\* submitted item that was a Task instance and none for any other item.
C1_HistoryCountsTasks ==
    Drained =>
        /\ Len(nip.history)
              = Cardinality({i \in 1..Len(nip.enq) : IsTask(nip.enq[i])})
        /\ \A h \in 1..Len(nip.history) : IsTask(nip.history[h].task)

\* ---- C2 -----------------------------------------------------------------
\* C2: a Task whose function raised has an Output in history whose returned
\* value is the error, and the loop was not ended by it.
C2_ErrorCaptured ==
    \A i \in 1..Len(nip.enq) :
        LET t == nip.enq[i] IN
        (IsTask(t) /\ t.raises /\ CallsOf(nip, t.id) # {} /\ nip.cur # t)
            => /\ \E h \in OutputsOf(nip, t) : nip.history[h].returned = Raised(t)
               /\ nip.cause # "error"

\* ---- C3 -----------------------------------------------------------------
\* C3: the step that dequeues an item that is neither a Task nor the
\* sentinel leaves history unchanged and the loop running.
C3_InvalidDropped ==
    [][(/\ CanDequeue(nip) /\ nip' = Dequeue(nip)
        /\ ~IsTask(Head(nip.queue)) /\ ~IsStop(Head(nip.queue)))
          => (nip'.history = nip.history /\ nip'.thread = "running")]_vars

\* ---- C4 -----------------------------------------------------------------
\* C4: a call of stop() eventually returns, with the loop thread dead.
C4_StopReturns ==
    (stopPc # "idle") ~> (stopPc = "idle" /\ ~IsAlive(nip))

\* ---- C5 -----------------------------------------------------------------
\* C5: when the loop has exited on the sentinel (the first one to reach the
\* queue), every Task queued ahead of it has been called and recorded; and
\* no item queued behind it is ever called or recorded.
C5_TerminatorDrainsAhead ==
    \A i \in 1..Len(nip.enq) :
        (IsStop(nip.enq[i]) /\ \A k \in 1..(i - 1) : ~IsStop(nip.enq[k])) =>
            /\ nip.cause = "stop" =>
                  \A j \in 1..(i - 1) :
                      IsTask(nip.enq[j]) =>
                          /\ CallsOf(nip, nip.enq[j].id) # {}
                          /\ OutputsOf(nip, nip.enq[j]) # {}
            /\ \A j \in (i + 1)..Len(nip.enq) :
                  /\ CallsOf(nip, nip.enq[j].id) = {}
                  /\ OutputsOf(nip, nip.enq[j]) = {}

\* The loop exited on the sentinel with a Task recorded ahead of it and an
\* item left on the queue behind it.
C5_Witness ==
    /\ nip.cause = "stop" /\ nip.thread = "dead"
    /\ \E h \in 1..Len(nip.history) : IsTask(nip.history[h].task)
    /\ nip.queue # <<>>

\* ---- C6 -----------------------------------------------------------------
\* C6: once the control loop has exited no step, a submit least of all,
\* changes history or calls a Task function; and once its thread is dead
\* nothing reaches the queue any more.
C6_SubmitAfterExitNoOp ==
    /\ [][nip.pc = "done" =>
            /\ nip'.history = nip.history
            /\ nip'.invoked = nip.invoked]_vars
    /\ [][~IsAlive(nip) => nip'.queue = nip.queue]_vars

\* submit put a Task after the loop had exited on the sentinel.
C6_Witness ==
    /\ nip.cause = "stop" /\ ~IsAlive(nip)
    /\ lateSub > 0
    /\ \E i \in 1..Len(nip.ready) : IsTask(nip.ready[i])

\* ---- C7 -----------------------------------------------------------------
\* C7: a stop() that follows a stop() that returned finds the thread dead,
\* and a stop() on a dead thread returns without waiting and leaves the
\* queue, the pending puts, the history and the loop state as they were.
C7_StopIdempotent ==
    /\ [](stopDone >= 1 => ~IsAlive(nip))
    /\ [][(~IsAlive(nip) /\ stopPc' # stopPc) =>
            /\ stopPc' # "join"
            /\ nip'.queue = nip.queue /\ nip'.ready = nip.ready
            /\ nip'.history = nip.history
            /\ nip'.thread = nip.thread /\ nip'.cause = nip.cause
            /\ nip'.pc = nip.pc]_vars

\* stop() has returned twice.
C7_Witness == stopDone = 2

\* ---- C8 -----------------------------------------------------------------
\* C8 as stated: every submitted item ends up on the queue, so no put is
\* left behind on a loop that is dead.
C8_EverySubmitReachesQueue == ~(nip.thread = "dead" /\ nip.ready # <<>>)

\* C8 amended: the items put so far are, in put order and each once, the
\* items that reached the queue followed by the puts still pending; the
\* queue is a suffix of what reached it; a submit in progress can always
\* take its next turn and a pending put is run whenever the loop is
\* running, also while a Task executes.
C8_PutsKeptOnceInOrder ==
    /\ Len(AllPut(nip)) = nip.nput
    /\ \A i \in 1..nip.nput : AllPut(nip)[i].id = i
    /\ Len(nip.queue) <= Len(nip.enq)
    /\ nip.queue = SubSeq(nip.enq, Len(nip.enq) - Len(nip.queue) + 1, Len(nip.enq))
    /\ \A c \in Callers : callers[c] # <<>> => ENABLED SubmitPut(c)
    /\ (IsRunning(nip) /\ nip.ready # <<>>) => ENABLED LoopCallback

\* While a Task executes, a put issued after it is pending and a submit
\* is in progress.
C8_Witness ==
    /\ nip.pc = "exec" /\ nip.thread = "running"
    /\ nip.ready # <<>> /\ nip.ready[1].id > nip.cur.id
    /\ \E c \in Callers : callers[c] # <<>>

\* ---- C9 -----------------------------------------------------------------
\* C9: no Task's function is called twice, history holds at most one
\* Output per Task, and every step leaves history alone or appends one
\* Output to it.
C9_ConsumedOnce ==
    /\ [](\A i \in 1..Len(nip.enq) :
            IsTask(nip.enq[i]) =>
                /\ Cardinality(CallsOf(nip, nip.enq[i].id)) <= 1
                /\ Cardinality(OutputsOf(nip, nip.enq[i])) <= 1)
    /\ [][\/ nip'.history = nip.history
          \/ /\ Len(nip'.history) = Len(nip.history) + 1
             /\ SubSeq(nip'.history, 1, Len(nip.history)) = nip.history]_vars

\* Three Tasks were called and recorded.
C9_Witness == Len(nip.invoked) = 3 /\ Len(nip.history) = 3

\* ---- C10 ----------------------------------------------------------------
\* C10: when a create_service that replaced an earlier service has
\* returned, every command submitted to a unit of the earlier service has
\* been run exactly once and has exactly one Output in Manager.outputs.
C10_NoWorkLostAcrossRestart ==
    (mgr.pc = "idle" /\ mgr.error = "" /\ mgr.service >= 2) =>
        \A s \in submitted :
            s[1][1] < mgr.service =>
                /\ Cardinality({k \in 1..Len(ran) : ran[k] = s}) = 1
                /\ Cardinality({h \in 1..Len(outputs(mgr)) :
                        /\ outputs(mgr)[h].task.unit = s[1]
                        /\ outputs(mgr)[h].task.id = s[2]}) = 1

\* ---- helpers of the provisioning properties ----------------------------

\* The Manager's registry has the node with a client.
HasClient(node) ==
    \E n \in 1..Len(mgr.nodes) : mgr.nodes[n].id = node /\ mgr.nodes[n].client

\* The rejected tasks of the service, in the order of the task list.
Rejected == SelectSeq(plat.tasks, LAMBDA t : t.state = "rejected")

\* The Manager's thread takes a step of the call it is in.
MgrMoves == mgr'.pc # mgr.pc \/ mgr'.k # mgr.k

\* Every unit of the list has left its dispatcher's loop and its thread.
AllStopped == \A i \in 1..Len(mgr.containers) : ~IsAlive(mgr.containers[i].ex)

C12_RejectedFailsUnbound ==
    /\ [][(Rejected # <<>> /\ plat'.svc = plat.svc) => Rejected' # <<>>]_vars
    /\ [][(mgr.pc = "cs_check_rejected" /\ Rejected # <<>> /\ MgrMoves) =>
            /\ mgr'.pc = "idle"
            /\ mgr'.error = "Service rejected"
            /\ mgr'.detail = Rejected[1].err
            /\ mgr'.containers = <<>>]_vars
    /\ [](mgr.error = "Service rejected" => mgr.containers = <<>>)

\* create_service failed on the rejection of the second of two tasks.
C12_Witness ==
    /\ mgr.pc = "idle"
    /\ mgr.error = "Service rejected"
    /\ mgr.detail = 2
    /\ plat.tasks[1].state = "running"
    /\ mgr.containers = <<>>

\* ---- C13 ----------------------------------------------------------------
\* C13: whenever a task is rejected while create_service waits for the
\* service, create_service ends with the error 'Service rejected'.
C13_RejectionAlwaysRaised ==
    ( /\ mgr.pc \in {"cs_wait_assigned", "cs_check_rejected", "cs_wait_active"}
      /\ Rejected # <<>> )
    ~> (mgr.pc = "idle" /\ mgr.error = "Service rejected")

\* ---- C14 ----------------------------------------------------------------
\* C14: the binding loop passes over a task whose node has no client in
\* the registry with no error and no unit, and when create_service returns
\* without an error the units are as many as the tasks of the list it went
\* through whose node has a client in the registry.
C14_NoClientSkipped ==
    /\ [][( /\ mgr.pc = "cs_bind"
            /\ mgr.k <= Len(mgr.snap)
            /\ mgr.snap[mgr.k].cs
            /\ ~HasClient(mgr.snap[mgr.k].node)
            /\ MgrMoves ) =>
            /\ mgr'.pc = "cs_bind"
            /\ mgr'.k = mgr.k + 1
            /\ mgr'.error = ""
            /\ mgr'.containers = mgr.containers]_vars
    /\ [][(mgr.pc = "cs_bind" /\ mgr'.pc = "idle" /\ mgr'.error = "") =>
            Len(mgr'.containers) =
                Cardinality({k \in 1..Len(mgr.snap) :
                                HasClient(mgr.snap[k].node)})]_vars

\* create_service returned with one unit for two running tasks, the second
\* one on a node without a client.
C14_Witness ==
    /\ mgr.pc = "idle"
    /\ mgr.error = ""
    /\ Len(plat.tasks) = 2
    /\ \A j \in 1..2 : plat.tasks[j].cs
    /\ ~HasClient(plat.tasks[2].node)
    /\ Len(mgr.containers) = 1

\* ---- C15 ----------------------------------------------------------------
\* C15: create_service never reads the container id of a task that has no
\* ContainerStatus.
C15_ContainerIdOnlyOfMaterialized == mgr.error # "KeyError: ContainerStatus"

\* ---- C16 ----------------------------------------------------------------
\* C16: a unit is appended to the list of units only when the last
\* container.idle of its settling loop returned true, and it is the unit
\* that was checked.
C16_IdleBeforeAppend ==
    [][Len(mgr'.containers) > Len(mgr.containers) =>
        /\ mgr.seen
        /\ mgr'.containers = Append(mgr.containers, mgr.unit)]_vars

\* A second unit was appended after its idle check.
C16_Witness ==
    /\ mgr.pc = "cs_bind"
    /\ Len(mgr.containers) = 2
    /\ mgr.seen
    /\ Len(mgr.containers[1].processes) = 2

\* ---- C17 ----------------------------------------------------------------
\* C17: in every state the list of units is empty unless the Manager holds
\* a service.
C17_UnitsOnlyWithService == mgr.containers # <<>> => mgr.service # 0

\* The Manager holds its second service with a bound unit, after a call
\* of create_service that tore the first one down.
C17_Witness ==
    /\ mgr.pc = "idle"
    /\ mgr.service = 2
    /\ mgr.containers # <<>>

\* ---- C18 ----------------------------------------------------------------
\* C18: remove_service empties the list of units only when the loop and
\* the thread of every unit's dispatcher have ended and before the
\* platform's service is removed; it ends with no units and no service;
\* and called with no service it changes nothing and raises nothing.
C18_RemoveStopsThenRemoves ==
    /\ [][(mgr.containers # <<>> /\ mgr'.containers = <<>>) =>
            /\ AllStopped
            /\ plat.svc = mgr.service
            /\ plat.svc # 0]_vars
    /\ [][(plat.svc # 0 /\ plat'.svc = 0) => mgr.containers = <<>>]_vars
    /\ [][(mgr.pc = "rm_service" /\ MgrMoves) =>
            /\ mgr'.containers = <<>>
            /\ mgr'.service = 0
            /\ plat'.svc = 0
            /\ mgr'.error = ""]_vars
    /\ [][(mgr.pc \in {"idle", "rm_service"} /\ mgr.service = 0
              /\ mgr'.pc \in {"idle", "rm_service"}) =>
            /\ mgr'.service = 0
            /\ mgr'.containers = <<>>
            /\ plat'.svc = plat.svc
            /\ plat'.tasks = plat.tasks
            /\ mgr'.error \in {"", mgr.error}]_vars

\* remove_service has stopped the two units of the service and is about to
\* empty the list.
C18_Witness ==
    /\ mgr.pc = "rm_obj_stop"
    /\ mgr.ret = "idle"
    /\ mgr.k = 2
    /\ Len(mgr.containers) = 2
    /\ AllStopped
    /\ plat.svc # 0

\* ---- C19 ----------------------------------------------------------------
\* C19: when the platform is asked to create a service the Manager holds no
\* service and no unit, the platform has neither the old service nor
\* another service with the requested name; and the units of the old
\* service were dropped only with their dispatchers stopped.
C19_TeardownBeforeCreate ==
    /\ [][plat'.gen > plat.gen =>
            /\ mgr.service = 0
            /\ mgr.containers = <<>>
            /\ plat.svc = 0
            /\ ~plat.bg]_vars
    /\ [][(mgr.ret = "cs_background" /\ mgr.containers # <<>>
              /\ mgr'.containers = <<>>) => AllStopped]_vars

\* create_service, called for a name another service has, has stopped the
\* unit of the service the Manager holds and is about to drop it.
C19_Witness ==
    /\ mgr.pc = "rm_obj_stop"
    /\ mgr.ret = "cs_background"
    /\ mgr.k = Len(mgr.containers)
    /\ AllStopped
    /\ plat.svc = 1
    /\ plat.bg

\* ---- C20 ----------------------------------------------------------------
\* C20: a create_service with a replica count does not fail before the
\* creation request, and the platform was asked for that many replicas.
C20_ExplicitReplicasRequested ==
    (mgr.pc = "idle" /\ mgr.arg # 0) =>
        /\ mgr.error # "AttributeError"
        /\ mgr.num_workers = mgr.arg
        /\ plat.replicas = mgr.arg

\* ---- C21 ----------------------------------------------------------------
\* The first n[i] Outputs of the history of each of the first k units of m,
\* unit after unit in the order of m.containers.
HistoryPrefixes(m, k, n) ==
    LET RECURSIVE Ext(_)
        Ext(i) == IF i = 0 THEN <<>>
                  ELSE Ext(i - 1) \o SubSeq(m.containers[i].ex.history, 1, n[i])
    IN  Ext(k)

\* The units the running (or last) read of Manager.outputs has gone through.
UnitsRead == IF mgr.pc = "out_extend" THEN mgr.k ELSE Len(mgr.containers)

\* C21: what Manager.outputs collects is, unit after unit in registration
\* order, the history of each unit in history order as it stood when the
\* unit was read (all of it when no Output was recorded meanwhile), and
\* no step of the read changes a unit.
C21_OutputsConcatenateHistories ==
    /\ [](\E n \in [1..UnitsRead -> 0..MaxCmds] :
            /\ \A i \in 1..UnitsRead :
                   n[i] <= Len(mgr.containers[i].ex.history)
            /\ mgr.out = HistoryPrefixes(mgr, UnitsRead, n))
    /\ []((mgr.pc = "idle" /\ Len(mgr.out) = Len(outputs(mgr)))
            => mgr.out = outputs(mgr))
    /\ [][(mgr.pc = "out_extend" /\ mgr'.k = mgr.k + 1) =>
            mgr'.out = mgr.out \o mgr.containers[mgr.k + 1].ex.history]_vars
    /\ [][(mgr'.pc # mgr.pc \/ mgr'.k # mgr.k \/ mgr'.out # mgr.out) =>
            mgr'.containers = mgr.containers]_vars

\* outputs returned the Outputs of two units, the first unit's first, and
\* they are all the Outputs there are.
C21_Witness ==
    /\ mgr.pc = "idle"
    /\ Len(mgr.out) = 2
    /\ mgr.out[1].task.unit = <<1, 1>>
    /\ mgr.out[2].task.unit = <<1, 2>>
    /\ mgr.out = outputs(mgr)

\* ---- C22 ----------------------------------------------------------------
\* C22: Container.submit(cmd) puts exactly one Task, of the command and of
\* that unit, on the unit's own dispatcher, touches no other unit and
\* leaves the caller free; the command is run only after an idle check of
\* the unit returned True (polled is set by such a check only); and the
\* Output recorded for the command holds what running it returned.
C22_SubmitEnqueuesRunsWhenIdle ==
    [][\A i \in 1..Len(mgr.containers) :
          LET c == mgr.containers[i]
              c2 == mgr'.containers[i]
          IN  /\ (c2.ex.nput # c.ex.nput) =>
                     /\ c2.ex.nput = c.ex.nput + 1
                     /\ c2.ex.ready =
                            Append(c.ex.ready,
                                   [Task("sync", FALSE) EXCEPT
                                       !.val = "cmd", !.unit = c.id,
                                       !.id = c2.ex.nput])
                     /\ c2.ex.history = c.ex.history
                     /\ c2.ex.invoked = c.ex.invoked
                     /\ mgr'.pc = "idle"
                     /\ \A o \in 1..Len(mgr.containers) :
                            o # i => mgr'.containers[o] = mgr.containers[o]
              /\ (c2.polled /\ ~c.polled) =>
                     /\ idle(c, plat)
                     /\ c.ex.pc = "exec"
              /\ (Len(c2.ex.history) > Len(c.ex.history)) =>
                     /\ c.polled
                     /\ c2.ex.history =
                            Append(c.ex.history,
                                   Output(c.ex.cur, Returned(c.ex.cur)))
                     /\ c.ex.cur.unit = c.id]_vars

\* A command submitted to the second unit was run and its Output recorded.
C22_Witness ==
    /\ Len(mgr.containers[2].ex.history) = 1
    /\ mgr.containers[2].ex.history[1].task.unit = <<1, 2>>
    /\ mgr.containers[2].ex.history[1].returned = <<"ret", 1>>
    /\ <<<<1, 2>>, 1>> \in submitted

\* ---- C23 ----------------------------------------------------------------
\* C23: for every unit, idle is True when the live process table has the
\* rows it had when the snapshot was taken, and False when it has those
\* rows and one new process after them; it is the same for any two units
\* with the same snapshot and the same live list.
C23_IdleComparesSnapshotWithLive ==
    \A i \in 1..Len(mgr.containers) :
        LET c == mgr.containers[i]
            top == plat.tasks[c.id[2]].top
            n == Len(c.processes)
        IN  /\ (/\ Len(top) = n
                 /\ \A k \in 1..n : top[k][3] = c.processes[k])
                    => idle(c, plat)
            /\ (/\ Len(top) = n + 1
                 /\ \A k \in 1..n : top[k][3] = c.processes[k])
                    => ~idle(c, plat)
            /\ \A o \in 1..Len(mgr.containers) :
                   (/\ mgr.containers[o].processes = c.processes
                    /\ fetch_processes(plat, mgr.containers[o].id[2])
                           = fetch_processes(plat, c.id[2]))
                      => (idle(mgr.containers[o], plat) <=> idle(c, plat))

\* The first unit's container has one process more than its snapshot and
\* the idle check of its command has not returned True; the second unit's
\* idle check, with an unchanged process table, has.
C23_Witness ==
    /\ Len(plat.tasks[1].top) = Len(mgr.containers[1].processes) + 1
    /\ mgr.containers[1].ex.pc = "exec"
    /\ ~mgr.containers[1].polled
    /\ ~idle(mgr.containers[1], plat)
    /\ mgr.containers[2].polled
    /\ idle(mgr.containers[2], plat)

\* ---- C24 ----------------------------------------------------------------
\* C24: while Container.wait polls a unit that is not idle, the loop it
\* runs on can give a step to another coroutine that has steps to make.
C24_WaitYieldsWhilePolling ==
    (/\ aio.running = "wait"
     /\ ~idle(mgr.containers[aio.unit], plat)
     /\ aio.other < MaxTicks) => CanRunOther(aio)

\* ---- C25 ----------------------------------------------------------------
\* C25: when Container.stop tells the platform to stop a unit's container,
\* the unit's dispatcher has been stopped: its pool is shut down, its
\* control loop has exited and its thread has ended.
C25_DispatcherStoppedBeforeContainer ==
    [][\A j \in 1..Len(plat.tasks) :
          (/\ Len(plat'.tasks) = Len(plat.tasks)
           /\ plat'.tasks[j].stopped
           /\ ~plat.tasks[j].stopped) =>
              /\ mgr.k \in 1..Len(mgr.containers)
              /\ mgr.containers[mgr.k].id = <<plat.svc, j>>
              /\ mgr.containers[mgr.k].ex.pool = "shutdown"
              /\ mgr.containers[mgr.k].ex.pc = "done"
              /\ ~IsAlive(mgr.containers[mgr.k].ex)]_vars

\* The container of the first unit was told to stop after the unit's
\* control loop, which was running, broke on the stop sentinel.
C25_Witness ==
    /\ Len(plat.tasks) >= 1
    /\ plat.tasks[1].stopped
    /\ mgr.containers # <<>>
    /\ mgr.containers[1].id = <<plat.svc, 1>>
    /\ mgr.containers[1].ex.cause = "stop"
    /\ ~IsAlive(mgr.containers[1].ex)

\* ---- C26 ----------------------------------------------------------------
\* C26: every command put on a unit's dispatcher gets its Output recorded
\* on that unit, unless that unit's own idle gate stays shut; what the
\* other units do, one with a command that never completes included, does
\* not matter.
C26_UnitsIndependent ==
    \A i \in 1..MaxWorkers : \A n \in 1..MaxCmds :
        (mgr.containers[i].ex.nput >= n)
            ~> (\/ Len(mgr.containers[i].ex.history) >= n
                \/ /\ ~idle(mgr.containers[i], plat)
                   /\ ~mgr.containers[i].polled)

\* The first unit's command waits at an idle gate that does not open and
\* the second unit has recorded the Output of a command put after the
\* first unit's.
C26_Witness ==
    /\ mgr.containers[1].ex.pc = "exec"
    /\ ~mgr.containers[1].polled
    /\ ~idle(mgr.containers[1], plat)
    /\ Len(mgr.containers[2].ex.history) = 1
    /\ Len(ran) = 2
    /\ ran[1] = <<<<1, 1>>, 1>>
    /\ ran[2] = <<<<1, 2>>, 1>>

\* ---- C27 ----------------------------------------------------------------
\* The Tasks among the items put on d, in put order (for one caller, the
\* order of its submit calls and, within a list, of the list).
TasksPut(d) == SelectSeq(AllPut(d), IsTask)

\* Every item put on d is a synchronous Task or the stop sentinel.
OnlySyncTasks(d) ==
    \A i \in 1..Len(AllPut(d)) :
        \/ IsStop(AllPut(d)[i])
        \/ IsTask(AllPut(d)[i]) /\ AllPut(d)[i].fn = "sync"

\* C27: when every submitted Task is synchronous, the Outputs of history
\* are those of the submitted Tasks in submission order: the h-th Output
\* is the Output of the h-th submitted Task.
C27_SyncOutputsInSubmissionOrder ==
    OnlySyncTasks(nip) =>
        /\ Len(nip.history) <= Len(TasksPut(nip))
        /\ \A h \in 1..Len(nip.history) :
               /\ nip.history[h].task = TasksPut(nip)[h]
               /\ nip.history[h].returned = Returned(TasksPut(nip)[h])

\* Three synchronous Tasks were submitted one after the other and all
\* three Outputs are recorded.
C27_Witness ==
    /\ OnlySyncTasks(nip)
    /\ Len(TasksPut(nip)) = MaxPuts
    /\ Len(nip.history) = MaxPuts
    /\ \A h \in 1..MaxPuts : nip.history[h].task.id = h

\* ---- C28 ----------------------------------------------------------------
\* C28: while a synchronous Task runs in the worker pool the control loop
\* can dequeue the next queued item.
C28_LoopFreeWhileSyncRuns ==
    (/\ nip.thread = "running"
     /\ nip.pc = "exec"
     /\ nip.cur.fn = "sync"
     /\ nip.queue # <<>>) => CanDequeue(nip)

\* ---- C29 ----------------------------------------------------------------
\* The place of the node with this id in the platform's list.
PlatIndex(p, id) == CHOOSE n \in 1..Len(p.nodes) : p.nodes[n].id = id

\* The registry holds the nodes of p that are ready, each once, in p's order.
RegistryIsReadyNodes(nodes, p) ==
    /\ \A n \in 1..Len(p.nodes) :
           (p.nodes[n].state = "ready")
              <=> (\E i \in 1..Len(nodes) : nodes[i].id = p.nodes[n].id)
    /\ \A i \in 1..Len(nodes) : \E n \in 1..Len(p.nodes) :
           p.nodes[n].id = nodes[i].id
    /\ \A i, j \in 1..Len(nodes) :
           i < j => PlatIndex(p, nodes[i].id) < PlatIndex(p, nodes[j].id)

\* C29: after Manager() and after every update_nodes() that changed the
\* registry, the registry holds exactly the nodes the platform reports as
\* ready at that call, in the platform's order; an entry of an earlier
\* discovery whose node is no longer ready is gone.
C29_RefreshReplacesRegistry ==
    /\ RegistryIsReadyNodes(mgr.nodes, plat)
    /\ [][(mgr'.nodes # mgr.nodes) =>
            RegistryIsReadyNodes(mgr'.nodes, plat')]_vars

\* The third node left the ready state and a refresh dropped it from the
\* registry, which keeps the first two nodes.
C29_Witness ==
    /\ plat.nodes[3].state = "down"
    /\ Len(mgr.nodes) = 2
    /\ mgr.nodes[1].id = "n1"
    /\ mgr.nodes[2].id = "n2"

\* ---- C30 ----------------------------------------------------------------
\* The registry lists every ready node of p, with no client for the hosts
\* other than the Manager's own whose dockerd cannot be reached and a
\* client for every other node.
DiscoveryComplete(nodes, p) ==
    \A n \in 1..Len(p.nodes) :
        (p.nodes[n].state = "ready") =>
            \E i \in 1..Len(nodes) :
                /\ nodes[i].id = p.nodes[n].id
                /\ nodes[i].client
                      = (p.nodes[n].local \/ p.nodes[n].reachable)

\* C30: a connection that fails during update_nodes (in Manager() or in a
\* later call) does not end the discovery: the node is in the registry
\* without a client and the nodes listed after it are in the registry too;
\* and a unit is bound only on a node the registry holds with a client.
C30_FailedConnectionKeepsDiscovery ==
    /\ DiscoveryComplete(mgr.nodes, plat)
    /\ [][(mgr'.nodes # mgr.nodes) =>
            DiscoveryComplete(mgr'.nodes, plat')]_vars
    /\ [][(Len(mgr'.containers) > Len(mgr.containers)) =>
            HasClient(mgr'.containers[Len(mgr'.containers)].node)]_vars

\* The second node is ready and cannot be reached: the registry holds it
\* without a client and holds the third node with one; a service was
\* created, and the one unit bound is on the first node although the
\* platform runs a task on the second.
C30_Witness ==
    /\ Len(mgr.nodes) = 3
    /\ mgr.nodes[2].id = "n2" /\ ~mgr.nodes[2].client
    /\ mgr.nodes[3].id = "n3" /\ mgr.nodes[3].client
    /\ mgr.pc = "idle" /\ mgr.error = ""
    /\ Len(plat.tasks) = 2
    /\ plat.tasks[2].node = "n2"
    /\ Len(mgr.containers) = 1
    /\ mgr.containers[1].node = "n1"

\* ---- C32 ----------------------------------------------------------------
\* stop() has been called.
StopCalled == stopPc # "idle" \/ stopDone > 0

\* C32: once stop() has been called, no Task that had not started is
\* started, and the Task that was running (one that does not raise) ends
\* with its Output appended to history.
C32_StopStartsNothingNew ==
    /\ [][StopCalled => nip'.invoked = nip.invoked]_vars
    /\ [][(/\ StopCalled
            /\ nip.pc = "exec" /\ ~nip.cur.raises
            /\ nip'.pc # "exec") =>
              nip'.history =
                  Append(nip.history, Output(nip.cur, Returned(nip.cur)))]_vars

\* ---- C33 ----------------------------------------------------------------
\* C33: a set_max_workers call changes the capacity of the pool and
\* nothing else of the dispatcher (queue, history, pending puts, the Task
\* in flight, the loop, the pool's threads) or of its callers, and a
\* synchronous Task a worker is running can still complete.
C33_SetMaxWorkersOnlyCapacity ==
    /\ [][(nip'.max_workers # nip.max_workers) =>
            /\ nip' = [nip EXCEPT !.max_workers = nip'.max_workers]
            /\ UNCHANGED <<callers, stopPc, stopDone, lateSub, clearPc>>]_vars
    /\ []((/\ nip.thread = "running" /\ nip.pc = "exec"
            /\ nip.cur.fn = "sync" /\ nip.workers > 0) => CanTaskDone(nip))

\* The capacity was set to 0 while a synchronous Task was running, with
\* an Output in history and an item on the queue, and the Task has since
\* been recorded.
C33_Witness ==
    /\ nip.max_workers = 0
    /\ nip.workers = 1
    /\ nip.thread = "running"
    /\ Len(nip.history) = 2
    /\ nip.history[2].task.fn = "sync"
    /\ nip.queue # <<>>

\* ---- C34 ----------------------------------------------------------------
\* C34: a step of clear() removes Outputs from history and changes
\* nothing else of the dispatcher (queue, loop, Task in flight); clear()
\* returns only with history empty; and an Output recorded later is
\* appended at the end of what history then holds.
C34_ClearEmptiesHistoryOnly ==
    /\ [][(Len(nip'.history) < Len(nip.history)) =>
            /\ clearPc = "loop"
            /\ nip' = [nip EXCEPT !.history = nip'.history]]_vars
    /\ [][(clearPc = "loop" /\ clearPc' = "idle") =>
            /\ nip.history = <<>>
            /\ nip' = nip]_vars
    /\ [][(Len(nip'.history) > Len(nip.history)) =>
            nip'.history =
                Append(nip.history, nip'.history[Len(nip'.history)])]_vars

\* Two Tasks were run without an error, clear() returned after the first
\* one's Output, and history holds the Output of the second alone.
C34_Witness ==
    /\ clearPc = "idle"
    /\ nip.thread = "running"
    /\ nip.pc = "get"
    /\ Len(nip.invoked) = 2
    /\ Len(nip.history) = 1
    /\ nip.history[1].task.id = nip.invoked[2]
    /\ nip.history[1].returned = <<"ret", nip.invoked[2]>>

\* ---- C35 ----------------------------------------------------------------
\* The Outputs of history whose item is a Task.
TaskOutputs(d) == SelectSeq(d.history, LAMBDA o : IsTask(o.task))

\* C35: the loop takes an item off the queue, and calls a Task's
\* function, only when it awaits no Task; one Task at most is in flight
\* (called and neither recorded nor failed); and the Tasks of history are
\* the Tasks called, in the order they were called.
C35_OneTaskAtATime ==
    /\ [][(Len(nip'.queue) < Len(nip.queue)) =>
            (nip.pc = "get" /\ nip.cur = NoItem)]_vars
    /\ [][(nip'.invoked # nip.invoked) =>
            /\ nip.pc = "get" /\ nip.cur = NoItem
            /\ nip'.invoked = Append(nip.invoked, Head(nip.queue).id)]_vars
    /\ [](/\ Len(TaskOutputs(nip)) <= Len(nip.invoked)
          /\ Len(nip.invoked) - Len(TaskOutputs(nip)) <= 1
          /\ \A h \in 1..Len(TaskOutputs(nip)) :
                 TaskOutputs(nip)[h].task.id = nip.invoked[h]
          /\ \A g, h \in 1..Len(nip.history) :
                 g < h => nip.history[g].task.id < nip.history[h].task.id
          /\ (nip.pc = "exec") => Len(nip.invoked) = Len(TaskOutputs(nip)) + 1)

\* A second Task is awaited, the first one is recorded and a third item
\* waits on the queue.
C35_Witness ==
    /\ nip.thread = "running"
    /\ nip.pc = "exec"
    /\ Len(nip.invoked) = 2
    /\ Len(TaskOutputs(nip)) = 1
    /\ nip.queue # <<>>

\* ---- C36 ----------------------------------------------------------------
\* C36: once a stop() has returned, history does not change any more.
C36_HistoryFrozenAfterStop ==
    [][(stopDone >= 1) => nip'.history = nip.history]_vars

\* stop() has returned with an item left on the queue, and an item was
\* submitted after the thread had ended.
C36_Witness ==
    /\ stopDone >= 1
    /\ nip.queue # <<>>
    /\ lateSub >= 1
    /\ nip.history # <<>>

\* ---- C37 ----------------------------------------------------------------
\* C37: with no Terminator submitted (and stop() never called), the loop
\* never breaks on the stop sentinel.
C37_OnlyTerminatorStopsLoop == nip.cause # "stop"

\* C38: when create_service has failed because a task was rejected, the
\* Manager still holds the handle of the service it created and the
\* platform still has that service; a remove_service called next finds no
\* container to stop, removes the service from the platform and leaves the
\* handle null.
C38_RejectedServiceKeptThenRemoved ==
    /\ [](mgr.pc = "idle" /\ mgr.error = "Service rejected"
            => /\ mgr.service # 0
               /\ plat.svc = mgr.service
               /\ mgr.containers = <<>>)
    /\ [][mgr.pc = "idle" /\ mgr.error = "Service rejected"
            /\ mgr'.pc # "idle" /\ mgr'.ret = "idle"
            => mgr'.pc = "rm_service" /\ mgr'.service = mgr.service]_vars
    /\ [][mgr.pc = "rm_service" /\ mgr.ret = "idle"
            /\ mgr.prev = "Service rejected" /\ mgr' # mgr
            => /\ mgr.service # 0 /\ plat.svc = mgr.service
               /\ mgr'.pc = "idle" /\ mgr'.error = ""
               /\ mgr'.service = 0 /\ plat'.svc = 0]_vars

\* C38 witness: remove_service has returned, the call before it was a
\* create_service that failed on a rejected task, and the service is gone.
C38_Witness ==
    /\ mgr.pc = "idle" /\ mgr.prev = "Service rejected" /\ mgr.error = ""
    /\ mgr.service = 0 /\ plat.svc = 0 /\ plat.gen > 0

\* C39 as stated: the settle loop of a new unit is over as soon as the last
\* two process lists fetched for the unit are equal; when it is over the
\* stored snapshot is the last list fetched; reading idle leaves the
\* snapshot alone.
C39_SettleEndsOnEqualSamples ==
    /\ [](mgr.pc \in {"cs_settle", "cs_set_idle"} /\ Len(mgr.samples) >= 2
            => mgr.samples[Len(mgr.samples) - 1]
                   # mgr.samples[Len(mgr.samples)])
    /\ [](mgr.pc = "cs_append"
            => mgr.unit.processes = mgr.samples[Len(mgr.samples)])
    /\ [][mgr.pc = "cs_settle" /\ mgr'.pc # "cs_settle"
            => mgr'.unit.processes = mgr.unit.processes]_vars

\* C39 amended: the settle loop is over as soon as an idle check fetches a
\* list equal to the stored snapshot, which is the list fetched by the
\* construction or the set_idle before that check (the list an idle check
\* fetched is not compared with the one the following set_idle fetches);
\* when it is over the stored snapshot is the last list fetched; reading
\* idle leaves the snapshot alone.
C39_SettleEndsWhenIdleMatchesSnapshot ==
    /\ [](mgr.pc = "cs_settle"
            => mgr.unit.processes = mgr.samples[Len(mgr.samples)])
    /\ [](mgr.pc = "cs_set_idle"
            => /\ Len(mgr.samples) >= 2
               /\ mgr.samples[Len(mgr.samples) - 1] = mgr.unit.processes
               /\ mgr.samples[Len(mgr.samples)] # mgr.unit.processes)
    /\ [](mgr.pc = "cs_append"
            => /\ Len(mgr.samples) >= 2
               /\ mgr.samples[Len(mgr.samples) - 1] = mgr.unit.processes
               /\ mgr.samples[Len(mgr.samples)] = mgr.unit.processes)
    /\ [][mgr.pc = "cs_settle" /\ mgr'.pc # "cs_settle"
            => /\ mgr'.pc \in {"cs_append", "cs_set_idle"}
               /\ mgr'.unit.processes = mgr.unit.processes]_vars

\* C39 witness: the loop is over after four fetches: the process list
\* changed after the construction, the idle check fetched the new list,
\* set_idle fetched the same list again and only the second idle check
\* ended the loop.
C39_Witness ==
    /\ mgr.pc = "cs_append"
    /\ Len(mgr.samples) = 4
    /\ mgr.samples[2] = mgr.samples[3]
    /\ mgr.samples[1] # mgr.samples[2]

\* The registry node m.nodes[i] lists the image label under tag.
Lists(p, id, label, tag) ==
    \E k \in 1..Len(p.images[id]) :
        \E t \in 1..Len(p.images[id][k].tags) :
            p.images[id][k].tags[t] = <<label, tag>>

\* The tag an is_installed(name, tag) call asks for.
RequestedTag(name, tag) ==
    IF Len(name) = 2 THEN name[2] ELSE IF tag = "" THEN "latest" ELSE tag

\* C31: is_installed(name, tag) returns True exactly when every node of
\* the registry that has a client lists the image under the requested tag
\* (the tag of a qualified name, else the tag argument, else "latest");
\* nodes without a client are not consulted, and an image listed only
\* under another tag does not count.
C31_InstalledIffEveryReachableNodeListsTag ==
    [][(plat' = plat /\ mgr' # mgr /\ mgr'.query # <<>>)
        => LET name == mgr'.query[1]
               tag == RequestedTag(name, mgr'.query[2])
               every == \A i \in 1..Len(mgr.nodes) :
                           mgr.nodes[i].client
                               => Lists(plat, mgr.nodes[i].id, name[1], tag)
           IN  mgr'.result = IF every THEN "True" ELSE "False"]_vars

====
